---------------------------- MODULE Spec2Model ----------------------------
(***************************************************************************)
(* A model of the commit engine of RelStorage: the object mover            *)
(* (adapters/mover.py, adapters/postgresql/mover.py) and the commit/row    *)
(* locker (adapters/locker.py).                                            *)
(*                                                                         *)
(* Several database sessions run concurrently.  Each session drives the    *)
(* pipeline  store_temp, lock_current_objects, detect_conflict,            *)
(* replace_temp, hold_commit_lock, move_from_temp, update_current,         *)
(* COMMIT, and may fail (ROLLBACK) at any point.                           *)
(*                                                                         *)
(* The database is modelled by its committed tables, by the tables as      *)
(* seen inside the transaction of a session that has written (txn), and    *)
(* by its row locks: the locks on the rows of current_object (history      *)
(* preserving) or object_state (history free) and the lock on the single   *)
(* row of commit_row_lock.                                                 *)
(***************************************************************************)
EXTENDS Integers, Sequences, FiniteSets, TLC

(***************************************************************************)
(* Bounds of the model.                                                    *)
(***************************************************************************)
NumSessions == 2
MaxOid == 2
MaxTid == 3
MaxCalls == 3
PageSize == 4

Max(S) == CHOOSE x \in S : \A y \in S : y <= x
Min(S) == CHOOSE x \in S : \A y \in S : x <= y

Sessions == 1..NumSessions
\* The session of the specifications that follow a single session
OneSession == Min(Sessions)
Oids == 1..MaxOid
Tids == 1..MaxTid
\* The payload the transactions of session s store.
Payload(s) == IF s = 1 THEN "A" ELSE IF s = 2 THEN "B" ELSE ""
\* data=None, which only restore accepts (store_temp takes len(data))
None == "<None>"

\* The holder of a lock nobody holds: no session.
NoSession == Min(Sessions) - 1

VARIABLES
    keep_history,       \* options.keep_history, fixed for an adapter
    mover,              \* "abstract": the queries of AbstractObjectMover;
                        \* "postgresql": those PostgreSQLObjectMover overrides
    supports_row_lock_nowait,  \* AbstractLocker._supports_row_lock_nowait
    object_state,       \* committed rows of object_state
    current_object,     \* committed rows of current_object: zoid -> tid, 0 = no row
    blob_chunk,         \* committed rows of blob_chunk
    transaction_tid,    \* the greatest committed tid
    txn,                \* per session: the tables as its open transaction sees them
    temp_store,         \* per session: the rows of temp_store, in insertion order
    temp_blob_chunk,    \* per session: the rows of temp_blob_chunk
    row_lock,           \* zoid -> the session holding the lock of that row
    commit_row_lock,    \* the session holding the lock of the commit_row_lock row
    row_lock_timeout,   \* per session: the row lock timeout installed
    timeout_installs,   \* per session: the calls of _on_store_opened_set_row_lock_timeout
    pc,                 \* per session: its position in the pipeline
    lock_queue,         \* per session: rows a running lock statement has yet to lock
    conflicts,          \* per session: the rows detect_conflict returned last
    tid,                \* per session: the tid of the transaction being finalized
    lock_call,          \* per session: the running hold_commit_lock call
    lock_result,        \* per session: what the last hold_commit_lock call did
    validated,          \* per session: zoid -> current tid seen by the last detect_conflict
    restored,           \* per session: the object_state keys restore wrote in this transaction
    last_finalized,     \* zoid -> [tid, state] staged by the last committed finalization
                        \* that staged zoid
    serial,             \* the database a serial execution of the committed transactions gives
    commit_log,         \* the tids of the committed finalizations, in commit order
    inst_dict,          \* the __dict__ of the adapter instance: the attributes that
                        \* Lazy and noop_when_history_free have set on it
    lobject,            \* the large objects of the database: loid -> bytes
    files,              \* the local files: filename -> bytes
    copy_buffer,        \* the TempStoreCopyBuffer a COPY reads from
    copy_stream,        \* the bytes its read and readinto calls have returned so far
    returned            \* the last call made on the mover by a caller that
                        \* records it, with what it returned or raised

vars == <<keep_history, mover, supports_row_lock_nowait,
          object_state, current_object, blob_chunk, transaction_tid,
          txn, temp_store, temp_blob_chunk, row_lock, commit_row_lock,
          row_lock_timeout, timeout_installs, pc, lock_queue, conflicts, tid, lock_call,
          lock_result, validated, restored, last_finalized, serial,
          commit_log, inst_dict, lobject, files, copy_buffer, copy_stream,
          returned>>

config_vars == <<keep_history, mover, supports_row_lock_nowait>>
db_vars == <<object_state, current_object, blob_chunk, transaction_tid>>
ghost_vars == <<last_finalized, serial, commit_log>>
env_vars == <<inst_dict, lobject, files, copy_buffer, copy_stream>>

(***************************************************************************)
(* Helpers.                                                                *)
(***************************************************************************)
\* Python's sorted() over a set of integers: the ascending sequence.
RECURSIVE sorted(_)
sorted(S) == IF S = {} THEN <<>> ELSE <<Min(S)>> \o sorted(S \ {Min(S)})

Range(f) == {f[i] : i \in DOMAIN f}

\* len(data), with COALESCE(LENGTH(state), 0) for NULL
Length(data) == IF data = None THEN 0 ELSE Len(data)

IsAscending(q) == \A i, j \in DOMAIN q : i < j => q[i] < q[j]

\* The orders in which a statement without ORDER BY can return, and so
\* lock, the rows of S: the order in which the plan the database chose
\* scans them (the index, or the table as it lies on disk).
RowOrders(S) == {q \in [1..Cardinality(S) -> S] : Range(q) = S}


(***************************************************************************)
(* The tables.                                                             *)
(*   temp_store row:   [zoid, prev_tid, md5, state]                        *)
(*   object_state row: [zoid, tid, prev_tid, md5, state_size, state]       *)
(*                     (history preserving, key (zoid, tid))               *)
(*                     [zoid, tid, state_size, state]                      *)
(*                     (history free, key zoid)                            *)
(*   current_object:   zoid -> tid (history preserving only)               *)
(*   blob_chunk row:   [zoid, tid, chunk_num, chunk]                       *)
(*   temp_blob_chunk row: [zoid, chunk_num, chunk]                         *)
(***************************************************************************)
NoTxn == [dirty |-> FALSE]

\* The tables as session s sees them: READ COMMITTED plus its own writes.
ViewObjectState(s) == IF txn[s].dirty THEN txn[s].object_state ELSE object_state
ViewCurrentObject(s) == IF txn[s].dirty THEN txn[s].current_object ELSE current_object
ViewBlobChunk(s) == IF txn[s].dirty THEN txn[s].blob_chunk ELSE blob_chunk

Written(os, cur, blobs) ==
    [dirty |-> TRUE, object_state |-> os, current_object |-> cur, blob_chunk |-> blobs]

StagedOids(temp) == {temp[i].zoid : i \in DOMAIN temp}
StagedRow(temp, zoid) == temp[CHOOSE i \in DOMAIN temp : temp[i].zoid = zoid]

\* The tid of the current row of zoid, 0 when it has none: the row of
\* current_object (history preserving) or of object_state (history free)
\* that the queries of the two modes join against.
CurrentTid(os, cur, zoid) ==
    IF keep_history
    THEN cur[zoid]
    ELSE IF \E r \in os : r.zoid = zoid
         THEN (CHOOSE r \in os : r.zoid = zoid).tid
         ELSE 0

\* The zoids that have a row in the table the locks are taken on.
HasCurrentRow(os, cur, zoid) == CurrentTid(os, cur, zoid) # 0

(***************************************************************************)
(* The query variant selector (adapters/_util.py): query_property, which   *)
(* picks the member of a pair of queries by keep_history, and              *)
(* noop_when_history_free, which makes a method do nothing on a history    *)
(* free instance.  Python values that are no numbers are written as        *)
(* strings.                                                                *)
(***************************************************************************)
\* An attribute the instance dict does not hold.
Unset == "<unset>"

\* The members of a _queries pair that are no query: an instance of an
\* exception, here the one PostgreSQLObjectMover puts in its pairs, and
\* an exception class.
UnsupportedInstance == "Unsupported('States accumulate in history-preserving mode')"
UnsupportedClass == "<class 'ZODB.POSException.Unsupported'>"

\* isinstance(query, Exception)
\*     or (isinstance(query, type) and issubclass(query, Exception))
IsException(query) == query \in {UnsupportedInstance, UnsupportedClass}

\* query % inst.runner.script_vars, for the templates of the model; a
\* query without a directive is formatted to itself.
Formatted(query) ==
    IF query = "SELECT %(TRUE)s" THEN "SELECT 1"
    ELSE IF query = "SELECT %(TRUE)s FOR UPDATE" THEN "SELECT 1 FOR UPDATE"
    ELSE query

\* A faulty prop that returns the selected member whatever it is.
prop_returns_exception(queries, extension, formatted) ==
    LET query == IF keep_history THEN queries[1] ELSE queries[2]
        extended == IF extension # "" THEN query \o extension ELSE query
    IN  [raised |-> FALSE,
         value |-> IF formatted THEN Formatted(extended) ELSE extended]

\* query_property, the function prop(inst) it wraps: the member of the
\* pair keep_history selects is raised when it is an exception; else the
\* extension is appended to it and the result is formatted.
prop(queries, extension, formatted) ==
    LET query == IF keep_history THEN queries[1] ELSE queries[2]
        extended == IF extension # "" THEN query \o extension ELSE query
    IN  IF IsException(query)
        THEN [raised |-> TRUE, value |-> query]
        ELSE [raised |-> FALSE,
              value |-> IF formatted THEN Formatted(extended) ELSE extended]

\* The attribute Lazy(prop, base_name + '_query') gives on an instance with
\* the dict d: the value the dict holds, when it holds one; else the value
\* of prop, which is then put in the dict.  When prop raises, the dict is
\* left as it is.
Lazy(d) ==
    IF d._query # Unset
    THEN [raised |-> FALSE, value |-> d._query, dict |-> d]
    ELSE LET r == prop(d._queries, d.extension, d.formatted)
         IN  IF r.raised
             THEN [raised |-> TRUE, value |-> r.value, dict |-> d]
             ELSE [raised |-> FALSE, value |-> r.value,
                   dict |-> [d EXCEPT !._query = r.value]]

\* query_property(base_name) with its defaults, on a pair of queries: the
\* first query of the pair when keep_history, else the second
query_property(queries) == prop(queries, "", FALSE).value

\* A faulty swizzler that installs no_op whatever keep_history is.
swizzler_always_no_op(d, meth_name) == [d EXCEPT ![meth_name] = "no_op"]

\* noop_when_history_free, swizzler up to its return: it sets, as an
\* attribute of the instance, no_op when keep_history is false and the
\* method bound to the instance when it is true.
swizzler(d, meth_name) ==
    [d EXCEPT ![meth_name] = IF ~keep_history THEN "no_op" ELSE "bound"]

\* A call of a method decorated with noop_when_history_free on an instance
\* with the dict d: the attribute of the instance when it is set, else the
\* swizzler of the class, which sets it and calls it.  Gives the dict
\* after the call and the function that ran: "no_op" or "bound".
noop_when_history_free(d, meth_name) ==
    LET d1 == IF d[meth_name] = Unset THEN swizzler(d, meth_name) ELSE d
    IN  [dict |-> d1, called |-> d1[meth_name]]

(***************************************************************************)
(* The mover: staging.                                                     *)
(***************************************************************************)
\* md5(data).hexdigest(), a function of the data
md5(data) == "md5:" \o data

\* _compute_md5sum, the method noop_when_history_free wraps
_compute_md5sum_meth(data) == IF data = None THEN None ELSE md5(data)

\* @noop_when_history_free _compute_md5sum, as a method that branches on
\* keep_history first
_compute_md5sum(data) ==
    IF ~keep_history THEN None ELSE _compute_md5sum_meth(data)

\* The row batcher (batch.py): delete_from and insert_into put rows in
\* the batcher, insert_into under a rowkey, so that a later row takes the
\* place of an earlier row of the same rowkey; flush executes the deletes
\* and then the inserts.
EmptyBatcher == [deletes |-> {}, inserts |-> <<>>]

batcher_delete_from(b, oid) == [b EXCEPT !.deletes = @ \cup {oid}]

batcher_insert_into(b, rowkey, row) ==
    LET rows == b.inserts
    IN  [b EXCEPT !.inserts =
            IF \E i \in DOMAIN rows : rows[i].zoid = rowkey
            THEN [i \in DOMAIN rows |-> IF rows[i].zoid = rowkey THEN row ELSE rows[i]]
            ELSE Append(rows, row)]

\* The INSERT statements of a flush: a row whose key is in the table
\* updates the row of that key (the inserts of store_temp either carry
\* ON CONFLICT (zoid) DO UPDATE or follow a delete of the key).
RECURSIVE batcher_insert_rows(_, _)
batcher_insert_rows(temp, rows) ==
    IF rows = <<>> THEN temp
    ELSE LET row == Head(rows)
             temp1 == IF row.zoid \in StagedOids(temp)
                      THEN [i \in DOMAIN temp |->
                               IF temp[i].zoid = row.zoid THEN row ELSE temp[i]]
                      ELSE Append(temp, row)
         IN  batcher_insert_rows(temp1, Tail(rows))

batcher_flush(temp, b) ==
    batcher_insert_rows(SelectSeq(temp, LAMBDA r : r.zoid \notin b.deletes), b.inserts)

\* store_temp(cursor, batcher, oid, prev_tid, data): the batcher after the
\* call.  _generic_store_temp without a suffix deletes the row of oid
\* before it inserts; PostgreSQLObjectMover.store_temp passes the suffix
\* ON CONFLICT (zoid) DO UPDATE, and nothing is deleted.
store_temp_batcher(b, oid, prev_tid, data) ==
    LET row == [zoid |-> oid, prev_tid |-> prev_tid,
                md5 |-> _compute_md5sum(data), state |-> data]
        b1 == IF mover = "postgresql" THEN b ELSE batcher_delete_from(b, oid)
    IN  batcher_insert_into(b1, oid, row)

\* _generic_store_temp: size=len(data) raises TypeError for data None,
\* before the batcher is called
_generic_store_temp_raises(data) == data = None

\* A faulty store_temp whose row is added to those staged before.
_generic_store_temp_appends(temp, oid, prev_tid, data) ==
    Append(temp, [zoid |-> oid, prev_tid |-> prev_tid,
                  md5 |-> _compute_md5sum(data), state |-> data])

\* _generic_store_temp, flushed: temp_store after one call on a batcher
\* of its own
_generic_store_temp(temp, oid, prev_tid, data) ==
    batcher_flush(temp, store_temp_batcher(EmptyBatcher, oid, prev_tid, data))

\* store_temp for each element of state_oid_tid_iter in turn, each call
\* flushed; an element is (data, oid_int, tid_int)
RECURSIVE store_temp_each(_, _)
store_temp_each(temp, state_oid_tid_iter) ==
    IF state_oid_tid_iter = <<>> THEN temp
    ELSE LET e == Head(state_oid_tid_iter)
         IN  store_temp_each(_generic_store_temp(temp, e[2], e[3], e[1]),
                             Tail(state_oid_tid_iter))

\* AbstractObjectMover.store_temps: the batcher after the loop
RECURSIVE store_temps_batcher(_, _)
store_temps_batcher(b, state_oid_tid_iter) ==
    IF state_oid_tid_iter = <<>> THEN b
    ELSE LET e == Head(state_oid_tid_iter)
         IN  store_temps_batcher(store_temp_batcher(b, e[2], e[3], e[1]),
                                 Tail(state_oid_tid_iter))

\* TempStoreCopyBuffer._read_one_tuple_md5 / _read_one_tuple_no_md5: the
\* tuple of an element, each column as its length and its bytes, with the
\* length -1 and no bytes for the md5 of a buffer without digester.
_read_tuple(e) ==
    [fields |-> 4,
     zoid |-> <<8, e[2]>>,
     prev_tid |-> <<8, e[3]>>,
     md5 |-> IF keep_history THEN <<32, _compute_md5sum(e[1])>> ELSE <<-1>>,
     state |-> <<Len(e[1]), e[1]>>]

\* The row COPY temp_store (zoid, prev_tid, md5, state) FROM STDIN makes of
\* a tuple: a column of length -1 is NULL.
COPY_row(t) ==
    [zoid |-> t.zoid[2], prev_tid |-> t.prev_tid[2],
     md5 |-> IF t.md5[1] = -1 THEN None ELSE t.md5[2],
     state |-> t.state[2]]

\* PostgreSQLObjectMover.store_temps: cursor.copy_expert(COPY_COMMAND,
\* buf) adds one row per element; COPY has no ON CONFLICT, so a key that is
\* in temp_store or twice among the elements violates PRIMARY KEY (zoid).
store_temps_copy(temp, state_oid_tid_iter) ==
    temp \o [i \in DOMAIN state_oid_tid_iter |->
                COPY_row(_read_tuple(state_oid_tid_iter[i]))]

store_temps_copy_fails(temp, state_oid_tid_iter) ==
    \/ \E i \in DOMAIN state_oid_tid_iter :
          state_oid_tid_iter[i][2] \in StagedOids(temp)
    \/ \E i, j \in DOMAIN state_oid_tid_iter :
          i # j /\ state_oid_tid_iter[i][2] = state_oid_tid_iter[j][2]

(***************************************************************************)
(* TempStoreCopyBuffer: the binary file-like object COPY reads the         *)
(* elements from, as bytes.                                                *)
(***************************************************************************)
\* bytearray(8192), the buffer of read, scaled to the payloads of the model
BufferLen == 32

\* The bytes of a payload.
data_bytes(data) ==
    CASE data = "" -> <<>>
      [] data = "A" -> <<65>>
      [] data = "B" -> <<66>>
      [] data = "BB" -> <<66, 66>>

\* struct.pack("!h" | "!i" | "!q", n): n in width bytes, big-endian, two's
\* complement
pack(n, width) ==
    [i \in 1..width |->
        LET k == width - i
        IN  IF k >= 4 THEN (IF n < 0 THEN 255 ELSE 0)
                      ELSE (n \div (256 ^ k)) % 256]

\* SIGNATURE + FLAGS + EXTENSION_LEN
HEADER ==
    <<80, 71, 67, 79, 80, 89, 10, 255, 13, 10, 0>> \o pack(0, 4) \o pack(0, 4)

\* struct.pack("!h", -1)
TRAILER == pack(0 - 1, 2)

\* digester(s).encode("ascii"): the 32 bytes of the hexdigest of the
\* payload, a different sequence for each payload
_digester(data) ==
    [i \in 1..32 |-> IF i <= Len(data_bytes(data)) THEN data_bytes(data)[i] ELSE 48]

\* A faulty _read_one_tuple_no_md5 that packs the md5 column as the empty
\* string, length 0.
_read_one_tuple_no_md5_empty(buf, e) ==
    buf \o pack(4, 2) \o pack(8, 4) \o pack(e[2], 8) \o pack(8, 4) \o pack(e[3], 8)
        \o pack(0, 4) \o pack(Len(data_bytes(e[1])), 4) \o data_bytes(e[1])

\* _read_one_tuple_md5(buf): WITH_SUM ("!hiqiqi32si") packed at the end of
\* buf, then the data
_read_one_tuple_md5(buf, e) ==
    buf \o pack(4, 2) \o pack(8, 4) \o pack(e[2], 8) \o pack(8, 4) \o pack(e[3], 8)
        \o pack(32, 4) \o _digester(e[1]) \o pack(Len(data_bytes(e[1])), 4)
        \o data_bytes(e[1])

\* _read_one_tuple_no_md5(buf): NO_SUM ("!hiqiqii") packed at the end of
\* buf, then the data
_read_one_tuple_no_md5(buf, e) ==
    buf \o pack(4, 2) \o pack(8, 4) \o pack(e[2], 8) \o pack(8, 4) \o pack(e[3], 8)
        \o pack(0 - 1, 4) \o pack(Len(data_bytes(e[1])), 4) \o data_bytes(e[1])

\* TempStoreCopyBuffer(state_oid_tid_iterable, digester); digester is true
\* when one was given.
TempStoreCopyBuffer(state_oid_tid_iterable, digester) ==
    [state_oid_tid_iterable |-> state_oid_tid_iterable,
     _iter |-> state_oid_tid_iterable,
     _digester |-> digester,
     _done |-> FALSE,
     _header |-> HEADER,
     _buffer |-> [i \in 1..BufferLen |-> 0]]

\* readinto: while len(buf) < requested, the next tuple, or the trailer
\* when next(self._iter) raises StopIteration
RECURSIVE readinto_while(_, _, _, _)
readinto_while(buf, _iter, requested, digester) ==
    IF Len(buf) >= requested
    THEN [buf |-> buf, _iter |-> _iter, _done |-> FALSE]
    ELSE IF _iter = <<>>
    THEN [buf |-> buf \o TRAILER, _iter |-> _iter, _done |-> TRUE]
    ELSE readinto_while(IF digester
                        THEN _read_one_tuple_md5(buf, Head(_iter))
                        ELSE _read_one_tuple_no_md5(buf, Head(_iter)),
                        Tail(_iter), requested, digester)

\* readinto(buf): the buffer object and buf after the call, and the count
\* returned
readinto(self, buf) ==
    IF self._done
    THEN [self |-> self, buf |-> buf, count |-> 0]
    ELSE LET r == readinto_while(self._header, self._iter, Len(buf),
                                 self._digester)
         IN  [self |-> [self EXCEPT !._header = <<>>, !._iter = r._iter,
                                    !._done = r._done],
              buf |-> r.buf,
              count |-> Len(r.buf)]

\* read(size): the buffer object after the call and the bytes returned
read(self, size) ==
    IF self._done
    THEN [self |-> self, result |-> <<>>]
    ELSE LET _buffer == IF Len(self._buffer) < size
                        THEN self._buffer
                                \o [i \in 1..(size - Len(self._buffer)) |-> 0]
                        ELSE self._buffer
             r == readinto(self, _buffer)
         IN  [self |-> [r.self EXCEPT !._buffer = r.buf],
              result |-> IF r.count = 0 THEN <<>> ELSE r.buf]

\* No COPY is running: a buffer over no elements.
NoBuffer == TempStoreCopyBuffer(<<>>, FALSE)

\* store_temps: temp_store after the call.  The PostgreSQL mover copies
\* when state_oid_tid_iter is true, that is not empty.
store_temps_rows(temp, state_oid_tid_iter) ==
    IF mover = "postgresql"
    THEN IF state_oid_tid_iter # <<>>
         THEN store_temps_copy(temp, state_oid_tid_iter)
         ELSE temp
    ELSE batcher_flush(temp, store_temps_batcher(EmptyBatcher, state_oid_tid_iter))

\* store_temps raises: len(data) of an element whose data is None, in the
\* loop as in the buffer the COPY reads, or the COPY itself
store_temps_fails(temp, state_oid_tid_iter) ==
    \/ \E i \in DOMAIN state_oid_tid_iter :
          _generic_store_temp_raises(state_oid_tid_iter[i][1])
    \/ /\ mover = "postgresql"
       /\ state_oid_tid_iter # <<>>
       /\ store_temps_copy_fails(temp, state_oid_tid_iter)

\* A faulty replace_temp that inserts the row when the object is not staged.
replace_temp_rows_upsert(temp, oid, prev_tid, data) ==
    _generic_store_temp(temp, oid, prev_tid, data)

\* replace_temp: UPDATE temp_store SET prev_tid, md5, state WHERE zoid = oid
replace_temp_rows(temp, oid, prev_tid, data) ==
    [i \in DOMAIN temp |->
        IF temp[i].zoid = oid
        THEN [zoid |-> oid, prev_tid |-> prev_tid,
              md5 |-> _compute_md5sum(data), state |-> data]
        ELSE temp[i]]

(***************************************************************************)
(* The mover: restore, which stores a revision directly.                   *)
(***************************************************************************)
\* _generic_restore as restore calls it: with command INSERT and no suffix
\* it deletes the row of the key before it inserts;
\* PostgreSQLObjectMover.restore passes the suffix ON CONFLICT DO UPDATE,
\* which sets every column of the row of the key.  prev_tid is
\* COALESCE((SELECT tid FROM current_object WHERE zoid = oid), 0).
_generic_restore(os, cur, oid, t, data) ==
    IF keep_history
    THEN {r \in os : ~(r.zoid = oid /\ r.tid = t)} \cup
            {[zoid |-> oid, tid |-> t, prev_tid |-> cur[oid],
              md5 |-> _compute_md5sum(data), state_size |-> Length(data),
              state |-> data]}
    ELSE IF data # None /\ data # ""
         THEN {r \in os : r.zoid # oid} \cup
                 {[zoid |-> oid, tid |-> t, state_size |-> Length(data),
                   state |-> data]}
         ELSE {r \in os : r.zoid # oid}

\* The rows of blob_chunk after _generic_restore: a delete_from of
\* object_state cascades
_generic_restore_blob_chunk(blobs, oid, t, data) ==
    IF keep_history
    THEN IF mover = "abstract"
         THEN {b \in blobs : ~(b.zoid = oid /\ b.tid = t)}
         ELSE blobs
    ELSE IF data # None /\ data # "" /\ mover = "postgresql"
         THEN blobs
         ELSE {b \in blobs : b.zoid # oid}

(***************************************************************************)
(* The mover: conflict detection.                                          *)
(***************************************************************************)
\* A faulty WHERE clause: temp_store.prev_tid < tid, which finds only the
\* staged rows that are older than the current row.
_detect_conflict_where_older(temp, os, cur) ==
    {z \in StagedOids(temp) :
        /\ HasCurrentRow(os, cur, z)
        /\ StagedRow(temp, z).prev_tid < CurrentTid(os, cur, z)}

\* A faulty query with a LEFT JOIN: a staged row without a current row is
\* compared with no tid.
_detect_conflict_where_left_join(temp, os, cur) ==
    {z \in StagedOids(temp) :
        StagedRow(temp, z).prev_tid # CurrentTid(os, cur, z)}

\* The zoids _detect_conflict_queries select: temp_store JOIN the current
\* rows USING (zoid) WHERE temp_store.prev_tid != tid
_detect_conflict_where(temp, os, cur) ==
    {z \in StagedOids(temp) :
        /\ HasCurrentRow(os, cur, z)
        /\ StagedRow(temp, z).prev_tid # CurrentTid(os, cur, z)}

\* A faulty query without ORDER BY zoid: the rows come in the order of
\* temp_store.
detect_conflict_unordered(temp, os, cur) ==
    LET rows == SelectSeq(temp, LAMBDA r : r.zoid \in _detect_conflict_where(temp, os, cur))
    IN  [i \in DOMAIN rows |->
            <<rows[i].zoid, CurrentTid(os, cur, rows[i].zoid), rows[i].prev_tid>>]

\* detect_conflict: the rows (zoid, current tid, prev_tid) ORDER BY zoid
detect_conflict(temp, os, cur) ==
    LET zs == sorted(_detect_conflict_where(temp, os, cur))
    IN  [i \in DOMAIN zs |->
            <<zs[i], CurrentTid(os, cur, zs[i]), StagedRow(temp, zs[i]).prev_tid>>]

(***************************************************************************)
(* The mover: finalization.  Each operator gives the table after the       *)
(* statement; the _fails operators say when the statement raises the       *)
(* IntegrityError of a duplicate key instead.                              *)
(***************************************************************************)
\* A faulty SELECT list that puts prev_tid in the tid column.
_move_from_temp_hp_rows_prev(temp, t) ==
    {[zoid |-> temp[i].zoid, tid |-> temp[i].prev_tid, prev_tid |-> temp[i].prev_tid,
      md5 |-> temp[i].md5, state_size |-> Length(temp[i].state),
      state |-> temp[i].state] : i \in DOMAIN temp}

\* The rows _move_from_temp_hp_insert_query selects from temp_store
_move_from_temp_hp_rows(temp, t) ==
    {[zoid |-> temp[i].zoid, tid |-> t, prev_tid |-> temp[i].prev_tid,
      md5 |-> temp[i].md5, state_size |-> Length(temp[i].state),
      state |-> temp[i].state] : i \in DOMAIN temp}

\* _move_from_temp_hp_insert_query: INSERT INTO object_state, key (zoid, tid)
_move_from_temp_hp_insert(os, temp, t) == os \cup _move_from_temp_hp_rows(temp, t)

\* A faulty table without the key (zoid, tid): the insert never fails.
_move_from_temp_hp_insert_never_fails(os, temp, t) == FALSE

_move_from_temp_hp_insert_fails(os, temp, t) ==
    \E n \in _move_from_temp_hp_rows(temp, t), r \in os :
        r.zoid = n.zoid /\ r.tid = n.tid

\* PostgreSQLObjectMover._move_from_temp_hf_insert_queries: the history
\* preserving member is an instance of Unsupported
_move_from_temp_hf_insert_queries ==
    <<UnsupportedInstance, "EXECUTE move_from_temp(%s)">>

\* A faulty history-free move that neither deletes nor upserts: the new
\* rows are added to the old ones.
_move_from_temp_object_state_added(os, temp, t) ==
    os \cup {[zoid |-> temp[i].zoid, tid |-> t,
              state_size |-> Length(temp[i].state),
              state |-> temp[i].state] : i \in DOMAIN temp}

\* A faulty history-free move that leaves the row of an object that has
\* one as it is (ON CONFLICT DO NOTHING).
_move_from_temp_object_state_kept(os, temp, t) ==
    os \cup {[zoid |-> temp[i].zoid, tid |-> t,
              state_size |-> Length(temp[i].state),
              state |-> temp[i].state] :
                 i \in {i \in DOMAIN temp : \A r \in os : r.zoid # temp[i].zoid}}

\* _move_from_temp_object_state: _move_from_temp_hf_delete_query, when the
\* mover has one, then _move_from_temp_hf_insert_query; the PostgreSQL
\* insert is an upsert ON CONFLICT (zoid) and its delete query is ''.
_move_from_temp_object_state(os, temp, t) ==
    LET new == {[zoid |-> temp[i].zoid, tid |-> t,
                 state_size |-> Length(temp[i].state),
                 state |-> temp[i].state] : i \in DOMAIN temp}
    IN  {r \in os : r.zoid \notin StagedOids(temp)} \cup new

\* The rows of blob_chunk after _move_from_temp_hf_delete_query has run
\* (history free, abstract mover): the delete cascades to blob_chunk.
_move_from_temp_hf_delete_cascade(blobs, temp) ==
    IF ~keep_history /\ mover = "abstract"
    THEN {b \in blobs : b.zoid \notin StagedOids(temp)}
    ELSE blobs

\* _move_from_temp_hf_delete_blob_chunk_query
_move_from_temp_hf_delete_blob_chunk(blobs, temp) ==
    {b \in blobs : b.zoid \notin StagedOids(temp)}

\* The rows _move_from_temp_copy_blob_query selects from temp_blob_chunk
_move_from_temp_copy_blob_rows(tblobs, t) ==
    {[zoid |-> b.zoid, tid |-> t, chunk_num |-> b.chunk_num,
      chunk |-> b.chunk] : b \in tblobs}

\* _move_from_temp_copy_blob_query: INSERT INTO blob_chunk, key
\* (zoid, tid, chunk_num) or, history free, (zoid, chunk_num)
_move_from_temp_copy_blob(blobs, tblobs, t) ==
    blobs \cup _move_from_temp_copy_blob_rows(tblobs, t)

_move_from_temp_copy_blob_fails(blobs, tblobs, t) ==
    \E n \in _move_from_temp_copy_blob_rows(tblobs, t), b \in blobs :
        /\ b.zoid = n.zoid /\ b.chunk_num = n.chunk_num
        /\ (keep_history => b.tid = n.tid)

\* move_from_temp: blob_chunk before the copy of the temporary chunks
move_from_temp_blobs_deleted(blobs, temp, txn_has_blobs) ==
    LET b0 == _move_from_temp_hf_delete_cascade(blobs, temp)
    IN  IF ~keep_history /\ txn_has_blobs
        THEN _move_from_temp_hf_delete_blob_chunk(b0, temp)
        ELSE b0

\* move_from_temp: object_state after the call
move_from_temp_object_state(os, temp, t) ==
    IF keep_history
    THEN _move_from_temp_hp_insert(os, temp, t)
    ELSE _move_from_temp_object_state(os, temp, t)

\* move_from_temp: blob_chunk after the call
move_from_temp_blob_chunk(blobs, temp, tblobs, t, txn_has_blobs) ==
    LET b1 == move_from_temp_blobs_deleted(blobs, temp, txn_has_blobs)
    IN  IF txn_has_blobs THEN _move_from_temp_copy_blob(b1, tblobs, t) ELSE b1

\* move_from_temp: one of its statements raises
move_from_temp_fails(os, blobs, temp, tblobs, t, txn_has_blobs) ==
    \/ keep_history /\ _move_from_temp_hp_insert_fails(os, temp, t)
    \/ /\ txn_has_blobs
       /\ _move_from_temp_copy_blob_fails(
              move_from_temp_blobs_deleted(blobs, temp, txn_has_blobs), tblobs, t)

\* The zoids _update_current_insert_query of AbstractObjectMover selects
_update_current_insert_zoids(os, t) ==
    {r.zoid : r \in {r \in os : r.tid = t /\ r.prev_tid = 0}}

\* _update_current_insert_query of AbstractObjectMover: INSERT, key zoid
_update_current_insert(os, cur, t) ==
    [z \in Oids |-> IF z \in _update_current_insert_zoids(os, t) THEN t ELSE cur[z]]

_update_current_insert_fails(os, cur, t) ==
    \E z \in _update_current_insert_zoids(os, t) : cur[z] # 0

\* A faulty update_current that does not run its update query.
_update_current_update_skipped(os, cur, t) == cur

\* _update_current_update_query of AbstractObjectMover
_update_current_update(os, cur, t) ==
    LET zs == {r.zoid : r \in {r \in os : r.tid = t /\ r.prev_tid # 0}}
    IN  [z \in Oids |-> IF z \in zs /\ cur[z] # 0 THEN t ELSE cur[z]]

\* _update_current_insert_query of PostgreSQLObjectMover: an upsert
\* ON CONFLICT (zoid) DO UPDATE; its _update_current_update_query is None
_update_current_upsert(os, cur, t) ==
    LET zs == {r.zoid : r \in {r \in os : r.tid = t}}
    IN  [z \in Oids |-> IF z \in zs THEN t ELSE cur[z]]

\* update_current, the method noop_when_history_free wraps: the insert
\* query, then the update query when the mover has one.
update_current_meth(os, cur, t) ==
    IF mover = "postgresql" THEN _update_current_upsert(os, cur, t)
    ELSE _update_current_update(os, _update_current_insert(os, cur, t), t)

update_current_meth_fails(os, cur, t) ==
    mover = "abstract" /\ _update_current_insert_fails(os, cur, t)

\* @noop_when_history_free update_current, as a method that branches on
\* keep_history first: current_object after the call
update_current_table(os, cur, t) ==
    IF ~keep_history THEN cur ELSE update_current_meth(os, cur, t)

update_current_fails(os, cur, t) ==
    keep_history /\ update_current_meth_fails(os, cur, t)

\* The order in which _update_current_insert_query of AbstractObjectMover
\* writes its rows: INSERT ... SELECT zoid, tid FROM object_state WHERE
\* tid = %s AND prev_tid = 0, a SELECT without ORDER BY
_update_current_insert_order(os, t) ==
    RowOrders(_update_current_insert_zoids(os, t))

\* The order in which _update_current_update_query writes its rows: the
\* rows of the subquery, which ends with ORDER BY zoid, that have a pointer
_update_current_update_order(os, cur, t) ==
    {sorted({z \in Oids : /\ cur[z] # 0
                          /\ \E r \in os : r.zoid = z /\ r.tid = t /\ r.prev_tid # 0})}

\* The order in which the upsert of PostgreSQLObjectMover writes its
\* rows: SELECT zoid, tid FROM object_state WHERE tid = %s ORDER BY zoid
_update_current_upsert_order(os, t) ==
    {sorted({r.zoid : r \in {r \in os : r.tid = t}})}

\* update_current: the orders its two statements can write their rows in,
\* as pairs of the order of the first and the order of the second
update_current_meth_order(os, cur, t) ==
    IF mover = "postgresql"
    THEN {<<q, <<>>>> : q \in _update_current_upsert_order(os, t)}
    ELSE {<<i, u>> : i \in _update_current_insert_order(os, t),
                     u \in _update_current_update_order(
                               os, _update_current_insert(os, cur, t), t)}

\* The rows of the locked table a finalization statement writes.
WrittenRows(os, cur, temp) == {z \in StagedOids(temp) : HasCurrentRow(os, cur, z)}


(***************************************************************************)
(* The locker: row locks.                                                  *)
(***************************************************************************)
\* _get_current_objects_queries: the staged zoids that have a current row
_get_current_objects_query(temp, os, cur) ==
    {z \in StagedOids(temp) : HasCurrentRow(os, cur, z)}

\* A faulty lock_current_objects that leaves oids_being_updated out.
oids_to_lock_current_only(temp, os, cur, current_oids) == sorted(current_oids)

\* lock_current_objects, current_oids not empty:
\* oids_to_lock = sorted(oids_being_updated | set(current_oids))
oids_to_lock(temp, os, cur, current_oids) ==
    sorted(_get_current_objects_query(temp, os, cur) \cup current_oids)

\* make_batcher(cursor, row_limit=1000): the most zoids one statement of
\* the batcher lists
row_limit == 1000

\* batcher.select_from(('zoid',), table, suffix=FOR UPDATE, zoid=oids_to_lock):
\* one statement SELECT zoid FROM table WHERE zoid IN (...) FOR UPDATE for
\* every row_limit zoids of the list, one after the other; the rows are
\* locked as they are returned.  The set of the sequences of rows the
\* call can lock.
RECURSIVE select_from_for_update(_, _, _)
select_from_for_update(oids, os, cur) ==
    IF oids = <<>>
    THEN {<<>>}
    ELSE LET n == Min({row_limit, Len(oids)})
             filter_subset == SubSeq(oids, 1, n)
             rows == {z \in Range(filter_subset) : HasCurrentRow(os, cur, z)}
         IN  {head \o rest :
                 head \in RowOrders(rows),
                 rest \in select_from_for_update(
                             SubSeq(oids, n + 1, Len(oids)), os, cur)}

\* A faulty lock query without ORDER BY ZOID: the rows are locked in the
\* order of temp_store.
_lock_current_objects_query_unordered(temp, os, cur) ==
    LET rows == SelectSeq(temp, LAMBDA r : HasCurrentRow(os, cur, r.zoid))
    IN  [i \in DOMAIN rows |-> rows[i].zoid]

\* _lock_current_objects_query: the _get_current_objects query
\* ORDER BY ZOID FOR UPDATE
_lock_current_objects_query(temp, os, cur) ==
    sorted(_get_current_objects_query(temp, os, cur))

\* lock_current_objects: the sequences of rows the call can lock, each in
\* the order it locks them
lock_current_objects_rows(temp, os, cur, current_oids) ==
    IF current_oids # {}
    THEN select_from_for_update(oids_to_lock(temp, os, cur, current_oids), os, cur)
    ELSE {_lock_current_objects_query(temp, os, cur)}

RowLockFree(s, z) == row_lock[z] \in {NoSession, s}

\* Session s waits for a row lock another session holds.
WaitsForRow(s, t) ==
    /\ pc[s] = "locking"
    /\ lock_queue[s] # <<>>
    /\ row_lock[Head(lock_queue[s])] = t

(***************************************************************************)
(* The locker: the commit lock.                                            *)
(***************************************************************************)
_commit_lock_queries ==
    <<"SELECT tid FROM commit_row_lock FOR UPDATE",
      "SELECT tid FROM commit_row_lock FOR UPDATE">>

_commit_lock_query == query_property(_commit_lock_queries)

_commit_lock_nowait_queries ==
    <<_commit_lock_queries[1] \o " NOWAIT", _commit_lock_queries[2] \o " NOWAIT">>

_commit_lock_nowait_query == query_property(_commit_lock_nowait_queries)

\* Options.commit_lock_timeout, in seconds; _set_row_lock_nowait installs 0
commit_lock_timeout == 30

\* hold_commit_lock, up to cursor.execute: the statement it chooses
hold_commit_lock_stmt(nowait) ==
    IF nowait /\ supports_row_lock_nowait
    THEN _commit_lock_nowait_query
    ELSE _commit_lock_query

\* A faulty hold_commit_lock that never calls _set_row_lock_nowait.
hold_commit_lock_timeout_kept(nowait, timeout) == timeout

\* A faulty hold_commit_lock whose blocking call sets the timeout back to
\* commit_lock_timeout.
hold_commit_lock_timeout_restored(nowait, timeout) ==
    IF nowait /\ ~supports_row_lock_nowait THEN 0 ELSE commit_lock_timeout

\* hold_commit_lock, up to cursor.execute: _set_row_lock_nowait sets the
\* session's row lock timeout to 0 and nothing resets it
hold_commit_lock_timeout(nowait, timeout) ==
    IF nowait /\ ~supports_row_lock_nowait THEN 0 ELSE timeout

\* The exceptions the statement of hold_commit_lock can raise, by the
\* except clauses that match them: the members of
\* driver.illegal_operation_exceptions and of driver.lock_exceptions,
\* which may share members (a ProgrammingError is a DatabaseError), and
\* an error of neither kind.
illegal_operation_exceptions ==
    {"illegal_operation_exception", "illegal_operation_and_lock_exception"}

lock_exceptions ==
    {"lock_exception", "illegal_operation_and_lock_exception"}

StatementExceptions ==
    illegal_operation_exceptions \cup lock_exceptions \cup {"other_exception"}

\* A faulty hold_commit_lock whose nowait branch falls through to the
\* final return True.
hold_commit_lock_result_true(outcome, nowait) ==
    IF outcome = "rows" THEN "True"
    ELSE IF outcome = "no rows" THEN "UnableToAcquireCommitLockError"
    ELSE IF outcome \in illegal_operation_exceptions THEN outcome
    ELSE IF outcome \in lock_exceptions
         THEN IF nowait THEN "True" ELSE "UnableToAcquireCommitLockError"
         ELSE outcome

\* A faulty hold_commit_lock that returns False on every lock exception,
\* whatever nowait is.
hold_commit_lock_result_false(outcome, nowait) ==
    IF outcome = "rows" THEN "True"
    ELSE IF outcome = "no rows" THEN "UnableToAcquireCommitLockError"
    ELSE IF outcome \in illegal_operation_exceptions THEN outcome
    ELSE IF outcome \in lock_exceptions THEN "False"
         ELSE outcome

\* A faulty hold_commit_lock whose except clauses are in the other order:
\* lock_exceptions is tried before illegal_operation_exceptions.
hold_commit_lock_result_lock_first(outcome, nowait) ==
    IF outcome = "rows" THEN "True"
    ELSE IF outcome = "no rows" THEN "UnableToAcquireCommitLockError"
    ELSE IF outcome \in lock_exceptions
         THEN IF nowait THEN "False" ELSE "UnableToAcquireCommitLockError"
    ELSE outcome

\* A faulty hold_commit_lock that does not look at the rows its
\* statement returned.
hold_commit_lock_result_rows_unchecked(outcome, nowait) ==
    IF outcome \in {"rows", "no rows"} THEN "True"
    ELSE IF outcome \in illegal_operation_exceptions THEN outcome
    ELSE IF outcome \in lock_exceptions
         THEN IF nowait THEN "False" ELSE "UnableToAcquireCommitLockError"
         ELSE outcome

\* A faulty hold_commit_lock whose nowait call returns False when the
\* statement returned no row.
hold_commit_lock_result_no_rows_false(outcome, nowait) ==
    IF outcome = "rows" THEN "True"
    ELSE IF outcome = "no rows"
         THEN IF nowait THEN "False" ELSE "UnableToAcquireCommitLockError"
    ELSE IF outcome \in illegal_operation_exceptions THEN outcome
    ELSE IF outcome \in lock_exceptions
         THEN IF nowait THEN "False" ELSE "UnableToAcquireCommitLockError"
         ELSE outcome

\* hold_commit_lock, from cursor.execute on: what the call does with the
\* outcome of the statement.
\*   "rows": the statement returned the row of commit_row_lock
\*   "no rows": it returned nothing
\*   a member of StatementExceptions: it raised that exception
\* The result is "True" or "False" for a return, and else names the
\* exception the call raises: UnableToAcquireCommitLockError, or the
\* exception of the statement itself, unchanged.  The except clause of
\* illegal_operation_exceptions comes first.
hold_commit_lock_result(outcome, nowait) ==
    IF outcome = "rows" THEN "True"
    ELSE IF outcome = "no rows" THEN "UnableToAcquireCommitLockError"
    ELSE IF outcome \in illegal_operation_exceptions THEN outcome
    ELSE IF outcome \in lock_exceptions
         THEN IF nowait THEN "False" ELSE "UnableToAcquireCommitLockError"
         ELSE outcome

\* What _get_commit_lock_debug_info(cursor) can do: return '' as
\* AbstractLocker's own does, return the text a subclass collects, or
\* raise an Exception (its query fails).
DebugInfos == {"", "debug_info", "nested_exception"}

\* A faulty hold_commit_lock that calls _get_commit_lock_debug_info
\* outside of a try statement.
hold_commit_lock_debug_info_uncaught(debug) ==
    [raised |-> IF debug = "nested_exception" THEN debug ELSE None,
     debug_info |-> debug]

\* hold_commit_lock, the except clause of lock_exceptions:
\*   try: debug_info = self._get_commit_lock_debug_info(cursor)
\*   except Exception as nested: debug_info = "%r(%r)" % (type(nested), nested)
\* raised is the exception that leaves the try statement, debug_info the
\* text bound after it.
hold_commit_lock_debug_info(debug) ==
    [raised |-> None,
     debug_info |-> IF debug = "nested_exception"
                    THEN "<class 'nested_exception'>(nested_exception())"
                    ELSE debug]

\* message = "Acquiring a commit lock failed: %s%s" % (
\*     e, '\n' + debug_info if debug_info else '')
\* as the sequence of the texts it is put together from
hold_commit_lock_message(e, debug_info) ==
    <<"Acquiring a commit lock failed: ", e>>
        \o (IF debug_info # "" THEN <<"\n", debug_info>> ELSE <<>>)

\* The database: the FOR UPDATE lock of the commit_row_lock row is granted
\* to session s when no other session holds it.
CommitLockFree(s) == commit_row_lock \in {NoSession, s}

\* The database: the statement of s waits for the holder instead of failing
\* at once (no NOWAIT, and a row lock timeout other than 0).
CommitLockWaits(s) ==
    /\ pc[s] = "lock_stmt"
    /\ ~CommitLockFree(s)
    /\ lock_call[s].lock_stmt # _commit_lock_nowait_query
    /\ row_lock_timeout[s] # 0


(***************************************************************************)
(* The initial state: an empty database, every session outside a           *)
(* transaction.                                                            *)
(***************************************************************************)
NoFinal == [tid |-> 0, state |-> None]
NoResult == [outcome |-> "none", result |-> "none", debug |-> "", message |-> <<>>]

InitDatabase ==
    /\ object_state = {}
    /\ current_object = [z \in Oids |-> 0]
    /\ blob_chunk = {}
    /\ transaction_tid = 0
    /\ row_lock = [z \in Oids |-> NoSession]
    /\ commit_row_lock = NoSession

InitSessions ==
    /\ txn = [s \in Sessions |-> NoTxn]
    /\ temp_store = [s \in Sessions |-> <<>>]
    /\ temp_blob_chunk = [s \in Sessions |-> {}]
    /\ row_lock_timeout = [s \in Sessions |-> commit_lock_timeout]
    /\ timeout_installs = [s \in Sessions |-> 1]
    /\ pc = [s \in Sessions |-> "idle"]
    /\ lock_queue = [s \in Sessions |-> <<>>]
    /\ conflicts = [s \in Sessions |-> <<>>]
    /\ tid = [s \in Sessions |-> 0]
    /\ lock_call = [s \in Sessions |-> [nowait |-> FALSE, lock_stmt |-> ""]]
    /\ lock_result = [s \in Sessions |-> NoResult]
    /\ validated = [s \in Sessions |-> [z \in Oids |-> 0]]
    /\ restored = [s \in Sessions |-> {}]

InitGhosts ==
    /\ last_finalized = [z \in Oids |-> NoFinal]
    /\ serial = [object_state |-> {}, current_object |-> [z \in Oids |-> 0]]
    /\ commit_log = <<>>

\* The dict of an instance on which no attribute has been set yet, with
\* the pair of queries, the extension and the formatted flag of the query
\* property it is asked for.
InstDict(queries, extension, formatted) ==
    [_queries |-> queries, extension |-> extension, formatted |-> formatted,
     _query |-> Unset, _compute_md5sum |-> Unset, update_current |-> Unset]

NoCall == [call |-> "", args |-> <<>>, raised |-> FALSE, result |-> None,
           statements |-> 0, n |-> 0]

\* The local files: a 10-byte file and an empty one to upload, and no
\* file yet where blobs are downloaded to.
NoFile == [exists |-> FALSE, bytes |-> <<>>]
File(bytes) == [exists |-> TRUE, bytes |-> bytes]

InitFiles ==
    [source |-> File(<<80, 75, 3, 4, 20, 0, 0, 0, 8, 0>>),
     empty |-> File(<<>>),
     dest |-> NoFile]

InitEnv ==
    /\ inst_dict = InstDict(_commit_lock_queries, "", FALSE)
    /\ lobject = <<>>
    /\ files = InitFiles
    /\ copy_buffer = NoBuffer
    /\ copy_stream = <<>>
    /\ returned = NoCall

Init ==
    /\ keep_history \in BOOLEAN
    /\ mover \in {"abstract", "postgresql"}
    /\ supports_row_lock_nowait = TRUE
    /\ InitDatabase
    /\ InitSessions
    /\ InitGhosts
    /\ InitEnv

(***************************************************************************)
(* Staging.                                                                *)
(***************************************************************************)
\* store_temp(cursor, batcher, oid, prev_tid, data), flushed.  What the
\* caller records of the call (returned) is left to the caller.  A call
\* that raises stages nothing, and the caller can only roll back.
\* A faulty store_temp over a temp_store that is one table for all
\* sessions.
store_temp_shared(s, oid, prev_tid, data) ==
    /\ pc[s] \in {"idle", "staging"}
    /\ temp_store' = [t \in Sessions |->
                         _generic_store_temp(temp_store[t], oid, prev_tid, data)]
    /\ pc' = [pc EXCEPT ![s] = "staging"]
    /\ UNCHANGED <<config_vars, env_vars, db_vars, ghost_vars, txn, temp_blob_chunk,
                   row_lock, commit_row_lock, row_lock_timeout, timeout_installs, lock_queue,
                   conflicts, tid, lock_call, lock_result, validated, restored>>

store_temp(s, oid, prev_tid, data) ==
    /\ pc[s] \in {"idle", "staging"}
    /\ IF _generic_store_temp_raises(data)
       THEN /\ pc' = [pc EXCEPT ![s] = "failed"]
            /\ UNCHANGED temp_store
       ELSE /\ temp_store' = [temp_store EXCEPT
                                ![s] = _generic_store_temp(@, oid, prev_tid, data)]
            /\ pc' = [pc EXCEPT ![s] = "staging"]
    /\ UNCHANGED <<config_vars, env_vars, db_vars, ghost_vars, txn, temp_blob_chunk,
                   row_lock, commit_row_lock, row_lock_timeout, timeout_installs, lock_queue,
                   conflicts, tid, lock_call, lock_result, validated, restored>>

\* store_temps(cursor, state_oid_tid_iter).  A COPY that fails raises, and
\* the transaction can only be rolled back.
store_temps(s, state_oid_tid_iter) ==
    /\ pc[s] \in {"idle", "staging"}
    /\ IF store_temps_fails(temp_store[s], state_oid_tid_iter)
       THEN /\ pc' = [pc EXCEPT ![s] = "failed"]
            /\ UNCHANGED temp_store
       ELSE /\ temp_store' = [temp_store EXCEPT
                                ![s] = store_temps_rows(@, state_oid_tid_iter)]
            /\ pc' = [pc EXCEPT ![s] = "staging"]
    /\ UNCHANGED <<config_vars, env_vars, db_vars, ghost_vars, txn, temp_blob_chunk,
                   row_lock, commit_row_lock, row_lock_timeout, timeout_installs, lock_queue,
                   conflicts, tid, lock_call, lock_result, validated, restored>>

(***************************************************************************)
(* Row locks.  lock_current_objects issues its lock statement; the         *)
(* database then locks the rows one after the other, in the order the      *)
(* statement returns them, waiting for each row that another session has   *)
(* locked.                                                                 *)
(***************************************************************************)
lock_current_objects(s, current_oids) ==
    /\ pc[s] = "staging"
    /\ \E rows \in lock_current_objects_rows(
                       temp_store[s], ViewObjectState(s), ViewCurrentObject(s),
                       current_oids) :
           /\ lock_queue' = [lock_queue EXCEPT ![s] = rows]
           /\ pc' = [pc EXCEPT ![s] = IF rows = <<>> THEN "rows_locked" ELSE "locking"]
    /\ UNCHANGED <<config_vars, env_vars, returned, db_vars, ghost_vars, txn, temp_store,
                   temp_blob_chunk, row_lock, commit_row_lock, row_lock_timeout, timeout_installs,
                   conflicts, tid, lock_call, lock_result, validated, restored>>

\* The database grants the next row lock of the statement; consume(rows)
\* returns when the last row has been fetched.
LockRow(s) ==
    /\ pc[s] = "locking"
    /\ lock_queue[s] # <<>>
    /\ LET z == Head(lock_queue[s])
       IN  /\ RowLockFree(s, z)
           /\ row_lock' = [row_lock EXCEPT ![z] = s]
    /\ lock_queue' = [lock_queue EXCEPT ![s] = Tail(@)]
    /\ pc' = [pc EXCEPT ![s] = IF Tail(lock_queue[s]) = <<>>
                               THEN "rows_locked" ELSE "locking"]
    /\ UNCHANGED <<config_vars, env_vars, returned, db_vars, ghost_vars, txn, temp_store,
                   temp_blob_chunk, commit_row_lock, row_lock_timeout, timeout_installs,
                   conflicts, tid, lock_call, lock_result, validated, restored>>

(***************************************************************************)
(* Conflict detection and resolution.                                      *)
(***************************************************************************)
\* detect_conflict(cursor)
DetectConflict(s) ==
    /\ pc[s] = "rows_locked"
    /\ LET rows == detect_conflict(temp_store[s], ViewObjectState(s),
                                   ViewCurrentObject(s))
       IN  /\ conflicts' = [conflicts EXCEPT ![s] = rows]
           /\ pc' = [pc EXCEPT ![s] = IF rows = <<>> THEN "validated" ELSE "conflict"]
    /\ validated' = [validated EXCEPT ![s] =
            [z \in Oids |-> IF z \in StagedOids(temp_store[s])
                            THEN CurrentTid(ViewObjectState(s), ViewCurrentObject(s), z)
                            ELSE 0]]
    /\ UNCHANGED <<config_vars, env_vars, returned, db_vars, ghost_vars, txn, temp_store,
                   temp_blob_chunk, row_lock, commit_row_lock, row_lock_timeout, timeout_installs,
                   lock_queue, tid, lock_call, lock_result, restored>>

\* The caller resolves the first conflict left: replace_temp(cursor, oid,
\* prev_tid, data) with the committed tid the conflict row names; after the
\* last one it validates again.
replace_temp(s, data) ==
    /\ pc[s] = "conflict"
    /\ LET c == Head(conflicts[s])
       IN  temp_store' = [temp_store EXCEPT
                            ![s] = replace_temp_rows(@, c[1], c[2], data)]
    /\ conflicts' = [conflicts EXCEPT ![s] = Tail(@)]
    /\ pc' = [pc EXCEPT ![s] = IF Tail(conflicts[s]) = <<>>
                               THEN "rows_locked" ELSE "conflict"]
    /\ UNCHANGED <<config_vars, env_vars, returned, db_vars, ghost_vars, txn, temp_blob_chunk,
                   row_lock, commit_row_lock, row_lock_timeout, timeout_installs, lock_queue,
                   tid, lock_call, lock_result, validated, restored>>

(***************************************************************************)
(* The commit lock.  hold_commit_lock chooses its statement and executes   *)
(* it; the statement ends at once when the lock is free, when it is a      *)
(* NOWAIT statement or when the row lock timeout is 0, and else waits for  *)
(* the holder or for the timeout.                                          *)
(***************************************************************************)
hold_commit_lock(s, nowait) ==
    /\ pc[s] \in {"idle", "validated", "refused"}
    /\ lock_call' = [lock_call EXCEPT
            ![s] = [nowait |-> nowait, lock_stmt |-> hold_commit_lock_stmt(nowait)]]
    /\ row_lock_timeout' = [row_lock_timeout EXCEPT
            ![s] = hold_commit_lock_timeout(nowait, @)]
    /\ lock_result' = [lock_result EXCEPT ![s] = NoResult]
    /\ pc' = [pc EXCEPT ![s] = "lock_stmt"]
    /\ UNCHANGED <<config_vars, env_vars, returned, db_vars, ghost_vars, txn, temp_store,
                   temp_blob_chunk, row_lock, commit_row_lock, timeout_installs, lock_queue,
                   conflicts, tid, validated, restored>>

\* What follows the statement of s when it ends with outcome.  When the
\* call is about to raise UnableToAcquireCommitLockError for a lock
\* exception it first asks for the debug info.
hold_commit_lock_return(s, outcome) ==
    LET nowait == lock_call[s].nowait
        stmt_result == hold_commit_lock_result(outcome, nowait)
        enriches == /\ stmt_result = "UnableToAcquireCommitLockError"
                    /\ outcome \in lock_exceptions
    IN  \E debug \in (IF enriches THEN DebugInfos ELSE {""}) :
          LET info == hold_commit_lock_debug_info(debug)
              result == IF enriches /\ info.raised # None
                        THEN info.raised ELSE stmt_result
              message ==
                  IF enriches
                  THEN IF info.raised # None THEN <<>>
                       ELSE hold_commit_lock_message(outcome, info.debug_info)
                  ELSE IF outcome = "no rows"
                       THEN <<"No row returned from commit_row_lock">>
                       ELSE <<>>
          IN  /\ lock_result' = [lock_result EXCEPT
                      ![s] = [outcome |-> outcome, result |-> result,
                              debug |-> debug, message |-> message]]
              /\ pc' = [pc EXCEPT ![s] =
                      CASE result = "True" -> "commit_locked"
                        [] result = "False" -> "refused"
                        [] OTHER -> "failed"]
              /\ UNCHANGED <<config_vars, env_vars, returned, db_vars, ghost_vars, txn, temp_store,
                             temp_blob_chunk, row_lock, row_lock_timeout, timeout_installs, lock_queue,
                             conflicts, tid, lock_call, validated, restored>>

\* The lock is free: the statement locks the row and returns it.
CommitLockGranted(s) ==
    /\ pc[s] = "lock_stmt"
    /\ CommitLockFree(s)
    /\ commit_row_lock' = s
    /\ hold_commit_lock_return(s, "rows")

\* Another session holds the lock: the statement raises a lock exception,
\* at once (NOWAIT, timeout 0) or when the timeout has elapsed.
CommitLockRefused(s) ==
    /\ pc[s] = "lock_stmt"
    /\ ~CommitLockFree(s)
    /\ UNCHANGED commit_row_lock
    /\ hold_commit_lock_return(s, "lock_exception")


(***************************************************************************)
(* Finalization, by the session that holds the commit lock.                *)
(***************************************************************************)
\* The caller takes the next tid, the greatest committed tid plus one,
\* after hold_commit_lock has returned True.
AssignTid(s) ==
    /\ pc[s] = "commit_locked"
    /\ transaction_tid < MaxTid
    /\ tid' = [tid EXCEPT ![s] = transaction_tid + 1]
    /\ pc' = [pc EXCEPT ![s] = "tid_assigned"]
    /\ UNCHANGED <<config_vars, env_vars, returned, db_vars, ghost_vars, txn, temp_store,
                   temp_blob_chunk, row_lock, commit_row_lock, row_lock_timeout, timeout_installs,
                   lock_queue, conflicts, lock_call, lock_result, validated,
                   restored>>

\* A statement that writes rows of the table the row locks are taken on
\* waits for the locks other sessions hold on them, and holds them itself
\* until the transaction ends.
WriteLocksFree(s, zoids) == \A z \in zoids : RowLockFree(s, z)
WriteLocked(s, zoids) == [z \in Oids |-> IF z \in zoids THEN s ELSE row_lock[z]]

\* A faulty move_from_temp that deletes the rows it has copied.
move_from_temp_temp_store_emptied(temp) == <<>>

\* temp_store after move_from_temp: its statements only SELECT ... FROM
\* temp_store
move_from_temp_temp_store(temp) == temp

\* move_from_temp(cursor, tid, txn_has_blobs)
move_from_temp(s, txn_has_blobs) ==
    /\ pc[s] \in {"tid_assigned", "restoring"}
    /\ LET os == ViewObjectState(s)
           cur == ViewCurrentObject(s)
           blobs == ViewBlobChunk(s)
           temp == temp_store[s]
           tblobs == temp_blob_chunk[s]
           written == IF keep_history THEN {} ELSE WrittenRows(os, cur, temp)
       IN  /\ WriteLocksFree(s, written)
           /\ IF move_from_temp_fails(os, blobs, temp, tblobs, tid[s], txn_has_blobs)
              THEN /\ pc' = [pc EXCEPT ![s] = "failed"]
                   /\ UNCHANGED <<txn, row_lock, temp_store>>
              ELSE /\ txn' = [txn EXCEPT ![s] = Written(
                            move_from_temp_object_state(os, temp, tid[s]),
                            cur,
                            move_from_temp_blob_chunk(blobs, temp, tblobs, tid[s],
                                                      txn_has_blobs))]
                   /\ temp_store' = [temp_store EXCEPT
                            ![s] = move_from_temp_temp_store(@)]
                   /\ row_lock' = WriteLocked(s, written)
                   /\ pc' = [pc EXCEPT ![s] = "moved"]
    /\ UNCHANGED <<config_vars, env_vars, returned, db_vars, ghost_vars, temp_blob_chunk,
                   commit_row_lock, row_lock_timeout, timeout_installs, lock_queue, conflicts, tid,
                   lock_call, lock_result, validated, restored>>

\* restore(cursor, batcher, oid, tid, data), flushed, in a transaction that
\* was begun with the tid of the transaction it copies and holds the
\* commit lock.
restore(s, oid, t, data) ==
    /\ pc[s] \in {"commit_locked", "restoring"}
    /\ temp_store[s] = <<>>
    /\ pc[s] = "restoring" => t = tid[s]
    /\ LET os == ViewObjectState(s)
           cur == ViewCurrentObject(s)
           written == IF ~keep_history /\ HasCurrentRow(os, cur, oid)
                      THEN {oid} ELSE {}
       IN  /\ WriteLocksFree(s, written)
           /\ txn' = [txn EXCEPT ![s] = Written(
                    _generic_restore(os, cur, oid, t, data), cur,
                    _generic_restore_blob_chunk(ViewBlobChunk(s), oid, t, data))]
           /\ row_lock' = WriteLocked(s, written)
    /\ tid' = [tid EXCEPT ![s] = t]
    /\ restored' = [restored EXCEPT ![s] = @ \cup {<<oid, t>>}]
    /\ pc' = [pc EXCEPT ![s] = "restoring"]
    /\ UNCHANGED <<config_vars, env_vars, db_vars, ghost_vars, temp_store, temp_blob_chunk,
                   commit_row_lock, row_lock_timeout, timeout_installs, lock_queue, conflicts,
                   lock_call, lock_result, validated>>

\* update_current(cursor, tid), called through noop_when_history_free:
\* no_op executes nothing; the bound method writes current_object.
update_current(s) ==
    /\ pc[s] = "moved"
    /\ LET call == noop_when_history_free(inst_dict, "update_current")
           os == ViewObjectState(s)
           cur == ViewCurrentObject(s)
           written == IF call.called = "bound"
                      THEN {z \in Oids : /\ cur[z] # 0
                                         /\ \E r \in os : r.zoid = z /\ r.tid = tid[s]}
                      ELSE {}
       IN  /\ inst_dict' = call.dict
           /\ WriteLocksFree(s, written)
           /\ IF call.called = "no_op"
              THEN /\ pc' = [pc EXCEPT ![s] = "finalized"]
                   /\ UNCHANGED <<txn, row_lock>>
              ELSE IF update_current_meth_fails(os, cur, tid[s])
              THEN /\ pc' = [pc EXCEPT ![s] = "failed"]
                   /\ UNCHANGED <<txn, row_lock>>
              ELSE /\ txn' = [txn EXCEPT ![s] = Written(
                            os, update_current_meth(os, cur, tid[s]), ViewBlobChunk(s))]
                   /\ row_lock' = WriteLocked(s, written)
                   /\ pc' = [pc EXCEPT ![s] = "finalized"]
    /\ UNCHANGED <<config_vars, copy_buffer, copy_stream,
                   lobject, files, db_vars, ghost_vars,
                   temp_store, temp_blob_chunk, commit_row_lock, row_lock_timeout, timeout_installs,
                   lock_queue, conflicts, tid, lock_call, lock_result, validated,
                   restored>>

(***************************************************************************)
(* Blobs (PostgreSQLObjectMover).  A blob is one row of blob_chunk, or of   *)
(* temp_blob_chunk, whose chunk is the identifier of a large object.       *)
(* lobject holds every large object created, by identifier: a sequence of  *)
(* pages of at most PageSize bytes.  Those of deleted rows and of          *)
(* transactions rolled back are in no row any more.                        *)
(***************************************************************************)
\* tid None (upload to the temporary table), as an integer no tid equals
NoneTid == 0 - 1

\* connection.lobject(0, 'wb', 0, filename): the file is read and written
\* to a new large object page by page
RECURSIVE lo_import(_)
lo_import(bytes) ==
    IF bytes = <<>> THEN <<>>
    ELSE IF Len(bytes) <= PageSize THEN <<bytes>>
    ELSE <<SubSeq(bytes, 1, PageSize)>> \o lo_import(SubSeq(bytes, PageSize + 1, Len(bytes)))

\* A faulty export that stops after the first page.
lo_export_one_page(pages) ==
    IF pages = <<>> THEN <<>> ELSE pages[1]

\* lobject(loid, 'rb').export(filename): the pages are read and written to
\* the file in turn
RECURSIVE lo_export(_)
lo_export(pages) ==
    IF pages = <<>> THEN <<>> ELSE Head(pages) \o lo_export(Tail(pages))

\* os.path.getsize(filename)
getsize(file) == Len(file.bytes)

\* A faulty upload that deletes nothing before it inserts.
upload_blob_delete_nothing(blobs, oid, t) == blobs

\* upload_blob: the DELETE before the INSERT INTO blob_chunk
upload_blob_delete(blobs, oid, t) ==
    IF keep_history
    THEN {b \in blobs : ~(b.zoid = oid /\ b.tid = t)}
    ELSE {b \in blobs : b.zoid # oid}

\* upload_blob: blob_chunk after the INSERT
upload_blob_chunk(blobs, oid, t, loid) ==
    upload_blob_delete(blobs, oid, t)
        \cup {[zoid |-> oid, tid |-> t, chunk_num |-> 0, chunk |-> loid]}

\* upload_blob: temp_blob_chunk after DELETE and INSERT
upload_blob_temp_chunk(tblobs, oid, loid) ==
    {b \in tblobs : b.zoid # oid}
        \cup {[zoid |-> oid, chunk_num |-> 0, chunk |-> loid]}

\* blob_chunk_fk: a row of blob_chunk references a row of object_state, by
\* (zoid, tid) or, history free, by zoid
upload_blob_fails(os, oid, t) ==
    ~\E r \in os : r.zoid = oid /\ (keep_history => r.tid = t)

\* upload_blob(cursor, oid, tid, filename).  An INSERT that fails raises,
\* and the large object goes with the transaction.
upload_blob(s, oid, t, filename) ==
    /\ pc[s] # "failed"
    /\ files[filename].exists
    /\ LET loid == Len(lobject) + 1
           fails == t # NoneTid /\ upload_blob_fails(ViewObjectState(s), oid, t)
       IN  /\ IF fails
              THEN /\ pc' = [pc EXCEPT ![s] = "failed"]
                   /\ UNCHANGED <<txn, temp_blob_chunk, lobject>>
              ELSE /\ lobject' = Append(lobject, lo_import(files[filename].bytes))
                   /\ pc' = [pc EXCEPT ![s] = IF @ = "idle" THEN "staging" ELSE @]
                   /\ IF t # NoneTid
                      THEN /\ txn' = [txn EXCEPT ![s] = Written(
                                  ViewObjectState(s), ViewCurrentObject(s),
                                  upload_blob_chunk(ViewBlobChunk(s), oid, t, loid))]
                           /\ UNCHANGED temp_blob_chunk
                      ELSE /\ temp_blob_chunk' = [temp_blob_chunk EXCEPT
                                  ![s] = upload_blob_temp_chunk(@, oid, loid)]
                           /\ UNCHANGED txn
           /\ returned' = [call |-> "upload_blob", args |-> <<oid, t, filename>>,
                           raised |-> fails, result |-> 0,
                           statements |-> 0, n |-> returned.n + 1]
    /\ UNCHANGED <<config_vars, copy_buffer, copy_stream,
                   inst_dict, files, db_vars, ghost_vars, temp_store,
                   row_lock, commit_row_lock, row_lock_timeout, timeout_installs, lock_queue,
                   conflicts, tid, lock_call, lock_result, validated, restored>>

\* download_blob: what the call raises for the rows its SELECT returns, or
\* None.  With assert statements compiled out (python -O) the unpacking of
\* rows[0] raises for no row, and the first of several rows is taken.
download_blob_raises(rows, optimized) ==
    IF Cardinality(rows) = 1 THEN None
    ELSE IF ~optimized THEN "AssertionError"
    ELSE IF rows = {} THEN "IndexError"
    ELSE None

\* download_blob(cursor, oid, tid, filename): the file is created or
\* replaced by the export.
download_blob(s, oid, t, filename) ==
    /\ pc[s] # "failed"
    /\ \E optimized \in BOOLEAN :
          LET rows == {b \in ViewBlobChunk(s) : b.zoid = oid /\ b.tid = t}
              exc == download_blob_raises(rows, optimized)
          IN  IF exc = None
              THEN \E row \in rows :
                      LET file == File(lo_export(lobject[row.chunk]))
                      IN  /\ files' = [files EXCEPT ![filename] = file]
                          /\ returned' = [call |-> "download_blob",
                                          args |-> <<oid, t, filename>>,
                                          raised |-> FALSE, result |-> getsize(file),
                                          statements |-> 0, n |-> returned.n + 1]
              ELSE /\ returned' = [call |-> "download_blob",
                                   args |-> <<oid, t, filename>>,
                                   raised |-> TRUE, result |-> exc,
                                   statements |-> 0, n |-> returned.n + 1]
                   /\ UNCHANGED files
    /\ UNCHANGED <<config_vars, copy_buffer, copy_stream,
                   inst_dict, lobject, db_vars, ghost_vars, txn,
                   temp_store, temp_blob_chunk, pc,
                   row_lock, commit_row_lock, row_lock_timeout, timeout_installs, lock_queue,
                   conflicts, tid, lock_call, lock_result, validated, restored>>

\* A faulty end of transaction after which the rows of the temporary
\* tables are still there.
EndTransaction_keeps_rows(s) ==
    /\ txn' = [txn EXCEPT ![s] = NoTxn]
    /\ row_lock' = [z \in Oids |-> IF row_lock[z] = s THEN NoSession ELSE row_lock[z]]
    /\ commit_row_lock' = IF commit_row_lock = s THEN NoSession ELSE commit_row_lock
    /\ pc' = [pc EXCEPT ![s] = "idle"]
    /\ lock_queue' = [lock_queue EXCEPT ![s] = <<>>]
    /\ conflicts' = [conflicts EXCEPT ![s] = <<>>]
    /\ tid' = [tid EXCEPT ![s] = 0]
    /\ lock_call' = [lock_call EXCEPT ![s] = [nowait |-> FALSE, lock_stmt |-> ""]]
    /\ lock_result' = [lock_result EXCEPT ![s] = NoResult]
    /\ validated' = [validated EXCEPT ![s] = [z \in Oids |-> 0]]
    /\ restored' = [restored EXCEPT ![s] = {}]
    /\ UNCHANGED <<config_vars, env_vars, returned, row_lock_timeout, timeout_installs,
                   temp_store, temp_blob_chunk>>

(***************************************************************************)
(* The end of the database transaction of a session: its row locks and     *)
(* its commit lock are released, and its temporary tables are emptied      *)
(* (ON COMMIT DELETE ROWS).                                                *)
(***************************************************************************)
EndTransaction(s) ==
    /\ txn' = [txn EXCEPT ![s] = NoTxn]
    /\ temp_store' = [temp_store EXCEPT ![s] = <<>>]
    /\ temp_blob_chunk' = [temp_blob_chunk EXCEPT ![s] = {}]
    /\ row_lock' = [z \in Oids |-> IF row_lock[z] = s THEN NoSession ELSE row_lock[z]]
    /\ commit_row_lock' = IF commit_row_lock = s THEN NoSession ELSE commit_row_lock
    /\ pc' = [pc EXCEPT ![s] = "idle"]
    /\ lock_queue' = [lock_queue EXCEPT ![s] = <<>>]
    /\ conflicts' = [conflicts EXCEPT ![s] = <<>>]
    /\ tid' = [tid EXCEPT ![s] = 0]
    /\ lock_call' = [lock_call EXCEPT ![s] = [nowait |-> FALSE, lock_stmt |-> ""]]
    /\ lock_result' = [lock_result EXCEPT ![s] = NoResult]
    /\ validated' = [validated EXCEPT ![s] = [z \in Oids |-> 0]]
    /\ restored' = [restored EXCEPT ![s] = {}]
    /\ UNCHANGED <<config_vars, env_vars, returned, row_lock_timeout, timeout_installs>>

\* The database a serial execution reaches when the transaction of s,
\* with the rows it staged, is finalized after those committed before it.
SerialFinalize(db, temp, t) ==
    LET os == move_from_temp_object_state(db.object_state, temp, t)
    IN  [object_state |-> os,
         current_object |-> update_current_table(os, db.current_object, t)]

\* COMMIT of a finalized transaction.
Commit(s) ==
    /\ pc[s] = "finalized"
    /\ object_state' = ViewObjectState(s)
    /\ current_object' = ViewCurrentObject(s)
    /\ blob_chunk' = ViewBlobChunk(s)
    /\ transaction_tid' = Max({transaction_tid, tid[s]})
    /\ last_finalized' = [z \in Oids |->
            IF z \in StagedOids(temp_store[s])
            THEN [tid |-> tid[s], state |-> StagedRow(temp_store[s], z).state]
            ELSE last_finalized[z]]
    /\ serial' = IF restored[s] = {}
                 THEN SerialFinalize(serial, temp_store[s], tid[s])
                 ELSE [object_state |-> object_state',
                       current_object |-> current_object']
    /\ commit_log' = Append(commit_log, tid[s])
    /\ EndTransaction(s)

\* ROLLBACK: the transaction fails or is abandoned, at any point.
Rollback(s) ==
    /\ pc[s] \notin {"idle", "closed"}
    /\ EndTransaction(s)
    /\ UNCHANGED <<db_vars, ghost_vars>>

(***************************************************************************)
(* The callers.  A transaction stores an object that has a current row     *)
(* with the tid of a revision it has loaded, which is a committed tid, and *)
(* an object that has none with prev_tid 0, as a new object under an oid   *)
(* allocated to it alone; it does not store an object twice.  No           *)
(* transaction begins once MaxTid is committed.                            *)
(***************************************************************************)
StoredByOther(s, oid) ==
    \E t \in Sessions \ {s} : oid \in StagedOids(temp_store[t])

CallerPrevTids(s, oid) ==
    IF HasCurrentRow(object_state, current_object, oid)
    THEN 1..transaction_tid
    ELSE IF StoredByOther(s, oid) THEN {} ELSE {0}

CallerStores(s) ==
    /\ pc[s] = "idle" => transaction_tid < MaxTid
    /\ \E oid \in Oids \ StagedOids(temp_store[s]) :
          \E prev_tid \in CallerPrevTids(s, oid) :
              store_temp(s, oid, prev_tid, Payload(s))
    /\ UNCHANGED returned

\* The caller asks for the commit lock once its staged rows are validated,
\* and again when a nowait call has returned False.
CallerHoldsCommitLock(s) ==
    /\ pc[s] \in {"validated", "refused"}
    /\ \E nowait \in BOOLEAN : hold_commit_lock(s, nowait)

(***************************************************************************)
(* The specification of the commit pipeline.                               *)
(***************************************************************************)
Next ==
    \E s \in Sessions :
        \/ CallerStores(s)
        \/ \E current_oids \in SUBSET Oids : lock_current_objects(s, current_oids)
        \/ LockRow(s)
        \/ DetectConflict(s)
        \/ replace_temp(s, Payload(s))
        \/ CallerHoldsCommitLock(s)
        \/ CommitLockGranted(s)
        \/ CommitLockRefused(s)
        \/ AssignTid(s)
        \/ \E txn_has_blobs \in BOOLEAN : move_from_temp(s, txn_has_blobs)
        \/ (update_current(s) /\ UNCHANGED returned)
        \/ Commit(s)
        \/ Rollback(s)

Spec == Init /\ [][Next]_vars

(***************************************************************************)
(* The locker alone: sessions that call hold_commit_lock, blocking or      *)
(* nowait, on either kind of database, and release the lock by ending      *)
(* their transaction.                                                      *)
(***************************************************************************)
InitLock ==
    /\ keep_history \in BOOLEAN
    /\ mover = "abstract"
    /\ supports_row_lock_nowait \in BOOLEAN
    /\ InitDatabase
    /\ InitSessions
    /\ InitGhosts
    /\ InitEnv

CallsHoldCommitLock(s) ==
    /\ pc[s] \in {"idle", "refused"}
    /\ \E nowait \in BOOLEAN : hold_commit_lock(s, nowait)

\* The statement ends without the row, or raises an exception of the
\* driver for another reason than the lock being held.
CommitLockStatementFails(s) ==
    /\ pc[s] = "lock_stmt"
    /\ UNCHANGED commit_row_lock
    /\ \E outcome \in {"no rows"} \cup StatementExceptions :
          hold_commit_lock_return(s, outcome)

NextLock ==
    \E s \in Sessions :
        \/ CallsHoldCommitLock(s)
        \/ CommitLockGranted(s)
        \/ CommitLockRefused(s)
        \/ CommitLockStatementFails(s)
        \/ Rollback(s)

SpecLock == InitLock /\ [][NextLock]_vars

(***************************************************************************)
(* detect_conflict as a function of the tables: any staged rows over any   *)
(* current rows.                                                           *)
(***************************************************************************)
DetectOids == {2, 9}
DetectTids == {3, 5}

\* The temp_store of a session that staged the objects in the order zs
DetectStaged(zs, prev) ==
    [i \in DOMAIN zs |-> [zoid |-> zs[i], prev_tid |-> prev[zs[i]],
                          md5 |-> _compute_md5sum("A"), state |-> "A"]]

DetectOrders == {<<>>, <<2>>, <<9>>, <<2, 9>>, <<9, 2>>}

\* The committed tables in which the current tid of each object is cur[z]
DetectObjectState(cur) ==
    IF keep_history
    THEN {[zoid |-> z, tid |-> cur[z], prev_tid |-> 0, md5 |-> md5("A"),
           state_size |-> 1, state |-> "A"] : z \in {z \in DetectOids : cur[z] # 0}}
    ELSE {[zoid |-> z, tid |-> cur[z], state_size |-> 1, state |-> "A"] :
             z \in {z \in DetectOids : cur[z] # 0}}

InitDetect ==
    /\ keep_history \in BOOLEAN
    /\ mover \in {"abstract", "postgresql"}
    /\ supports_row_lock_nowait = TRUE
    /\ InitSessions
    /\ InitGhosts
    /\ InitEnv
    /\ \E cur \in [DetectOids -> DetectTids \cup {0}] :
          /\ object_state = DetectObjectState(cur)
          /\ current_object = IF keep_history THEN cur ELSE [z \in DetectOids |-> 0]
    /\ blob_chunk = {}
    /\ transaction_tid = Max(DetectTids)
    /\ row_lock = [z \in Oids |-> NoSession]
    /\ commit_row_lock = NoSession

\* The session stages its rows and has its conflicts detected.
DetectStages ==
    /\ pc[OneSession] = "idle"
    /\ \E zs \in DetectOrders, prev \in [DetectOids -> DetectTids \cup {0}] :
          temp_store' = [temp_store EXCEPT ![OneSession] = DetectStaged(zs, prev)]
    /\ pc' = [pc EXCEPT ![OneSession] = "rows_locked"]
    /\ UNCHANGED <<config_vars, env_vars, returned, db_vars, ghost_vars, txn, temp_blob_chunk,
                   row_lock, commit_row_lock, row_lock_timeout, timeout_installs, lock_queue,
                   conflicts, tid, lock_call, lock_result, validated, restored>>

NextDetect ==
    \/ DetectStages
    \/ DetectConflict(OneSession)

SpecDetect == InitDetect /\ [][NextDetect]_vars

(***************************************************************************)
(* Properties of the locker alone (SpecLock).                              *)
(***************************************************************************)
\* C1: at most one session holds the commit lock: no state has two
\* sessions for which hold_commit_lock returned True and that have not yet
\* released the lock by ending their transaction.
C1_AtMostOneCommitLockHolder ==
    \A s, t \in Sessions :
        (lock_result[s].result = "True" /\ lock_result[t].result = "True") => s = t

\* A session holds the lock while the nowait call of another has returned
\* False.
C1_Witness ==
    \E s, t \in Sessions :
        /\ s # t
        /\ lock_result[s].result = "True"
        /\ commit_row_lock = s
        /\ lock_result[t].result = "False"

\* C10: hold_commit_lock(nowait=True) never blocks: its statement never
\* waits for the holder of the commit lock, and when the statement ends
\* with a lock error because another session holds the lock, the call
\* returns False and does not raise.
C10_NowaitNeverBlocks ==
    \A s \in Sessions :
        lock_call[s].nowait =>
            /\ ~CommitLockWaits(s)
            /\ lock_result[s].outcome = "lock_exception" =>
                   (lock_result[s].result = "False" /\ pc[s] = "refused")

\* A nowait call has returned False on a database without NOWAIT while
\* another session holds the lock.
C10_Witness ==
    \E s, t \in Sessions :
        /\ s # t
        /\ commit_row_lock = t
        /\ lock_call[s].nowait
        /\ ~supports_row_lock_nowait
        /\ lock_result[s].outcome = "lock_exception"
        /\ lock_result[s].result = "False"

\* C11: a blocking hold_commit_lock (nowait false) whose statement raises
\* a lock exception, of contention or of a timeout, raises
\* UnableToAcquireCommitLockError: the call returns neither False nor
\* True, and the session does not hold the lock.
C11_BlockingContentionRaises ==
    \A s \in Sessions :
        (/\ ~lock_call[s].nowait
         /\ lock_result[s].outcome \in lock_exceptions \ illegal_operation_exceptions)
        => /\ lock_result[s].result = "UnableToAcquireCommitLockError"
           /\ pc[s] = "failed"
           /\ commit_row_lock # s

\* A blocking call with the row lock timeout of the options has raised
\* UnableToAcquireCommitLockError while another session holds the lock.
C11_Witness ==
    \E s, t \in Sessions :
        /\ s # t
        /\ commit_row_lock = t
        /\ ~lock_call[s].nowait
        /\ row_lock_timeout[s] = commit_lock_timeout
        /\ lock_result[s].outcome = "lock_exception"
        /\ lock_result[s].result = "UnableToAcquireCommitLockError"

\* C12: an exception of illegal_operation_exceptions raised by the
\* commit lock statement leaves hold_commit_lock as it is, blocking or
\* nowait, also when it is one of lock_exceptions too: the call neither
\* raises UnableToAcquireCommitLockError nor returns False or True.
C12_IllegalOperationPropagates ==
    \A s \in Sessions :
        lock_result[s].outcome \in illegal_operation_exceptions =>
            /\ lock_result[s].result = lock_result[s].outcome
            /\ pc[s] = "failed"

\* A nowait call and a blocking call have both ended with an exception
\* that is an illegal operation exception and a lock exception.
C12_Witness ==
    \E s, t \in Sessions :
        /\ lock_call[s].nowait
        /\ ~lock_call[t].nowait
        /\ lock_result[s].outcome = "illegal_operation_and_lock_exception"
        /\ lock_result[t].outcome = "illegal_operation_and_lock_exception"
        /\ lock_result[s].result = "illegal_operation_and_lock_exception"
        /\ lock_result[t].result = "illegal_operation_and_lock_exception"

(***************************************************************************)
(* Properties of detect_conflict (SpecDetect).                             *)
(***************************************************************************)
\* C3: detect_conflict is sound and complete over the staged rows: a
\* staged row of an object with a current row is in the output, as
\* (zoid, current tid, staged prev_tid), exactly when its prev_tid differs
\* from the current tid, once, and the output holds nothing else; staging
\* object 9 with predecessor 5 while its current tid is 3 gives exactly
\* (9, 3, 5).
C3_DetectConflictSoundAndComplete ==
    LET temp == temp_store[OneSession]
        out == conflicts[OneSession]
        current(z) == CurrentTid(object_state, current_object, z)
        record(z) == <<z, current(z), StagedRow(temp, z).prev_tid>>
    IN  pc[OneSession] \in {"validated", "conflict"} =>
            /\ \A z \in StagedOids(temp) :
                  HasCurrentRow(object_state, current_object, z) =>
                      (StagedRow(temp, z).prev_tid # current(z)
                          <=> record(z) \in Range(out))
            /\ \A i \in DOMAIN out :
                  /\ out[i][1] \in StagedOids(temp)
                  /\ HasCurrentRow(object_state, current_object, out[i][1])
                  /\ out[i] = record(out[i][1])
                  /\ out[i][2] # out[i][3]
            /\ \A i, j \in DOMAIN out : out[i][1] = out[j][1] => i = j

\* Object 9 staged with predecessor 5 while its current tid is 3, and the
\* output is the one record (9, 3, 5).
C3_Witness ==
    LET temp == temp_store[OneSession]
    IN  /\ pc[OneSession] = "conflict"
        /\ StagedOids(temp) = {9}
        /\ StagedRow(temp, 9).prev_tid = 5
        /\ CurrentTid(object_state, current_object, 9) = 3
        /\ conflicts[OneSession] = << <<9, 3, 5>> >>

\* C4: detect_conflict returns its records in strictly ascending zoid
\* order, history preserving or history free, whatever the order the
\* objects were staged in.
C4_DetectConflictAscending ==
    LET out == conflicts[OneSession]
    IN  pc[OneSession] \in {"validated", "conflict"} =>
            \A i, j \in DOMAIN out : i < j => out[i][1] < out[j][1]

\* Two conflicting objects staged in descending order, history free.
C4_Witness ==
    /\ ~keep_history
    /\ pc[OneSession] = "conflict"
    /\ Len(temp_store[OneSession]) = 2
    /\ temp_store[OneSession][1].zoid > temp_store[OneSession][2].zoid
    /\ Len(conflicts[OneSession]) = 2

(***************************************************************************)
(* Properties of the commit pipeline (Spec).                               *)
(***************************************************************************)
\* C2: no lost update: from the validation of a session (detect_conflict
\* returned no row) through its finalization, the committed current tid of
\* every object it staged is the one it validated against, and the staged
\* prev_tid of every staged object that has a current row equals it; so no
\* other session commits a revision of such an object in between.
C2_NoLostUpdate ==
    \A s \in Sessions :
        pc[s] \in {"validated", "refused", "lock_stmt", "commit_locked",
                   "tid_assigned", "moved", "finalized"} =>
            \A z \in StagedOids(temp_store[s]) :
                /\ CurrentTid(object_state, current_object, z) = validated[s][z]
                /\ validated[s][z] # 0 =>
                       StagedRow(temp_store[s], z).prev_tid = validated[s][z]

\* A session has finalized a new revision of an object that has a current
\* row while another session that staged the same object waits for the
\* lock of that row.
C2_Witness ==
    \E s, t \in Sessions :
        /\ s # t
        /\ pc[s] = "finalized"
        /\ WaitsForRow(t, s)
        /\ LET z == Head(lock_queue[t])
           IN  /\ z \in StagedOids(temp_store[s]) \cap StagedOids(temp_store[t])
               /\ validated[s][z] # 0

\* C5: the tids of the committed finalizations are strictly increasing in
\* commit order; a session has a tid only while it holds the commit lock,
\* and that tid is greater than every committed one; every permanent row a
\* finalization writes carries the one tid of that finalization.
C5_TidsIncreaseUnderCommitLock ==
    /\ \A i, j \in DOMAIN commit_log : i < j => commit_log[i] < commit_log[j]
    /\ \A s \in Sessions :
          /\ tid[s] # 0 =>
                /\ commit_row_lock = s
                /\ lock_result[s].result = "True"
                /\ tid[s] > transaction_tid
          /\ pc[s] \in {"tid_assigned", "moved", "finalized"} => tid[s] # 0
          /\ pc[s] \in {"moved", "finalized"} =>
                /\ \A r \in ViewObjectState(s) \ object_state : r.tid = tid[s]
                /\ \A z \in StagedOids(temp_store[s]) :
                      \E r \in ViewObjectState(s) : r.zoid = z /\ r.tid = tid[s]

\* Two finalizations are committed and a session has moved its rows under
\* the third tid while another session asks for the commit lock.
C5_Witness ==
    /\ Len(commit_log) = 2
    /\ \E s, t \in Sessions :
          /\ s # t
          /\ pc[s] = "moved"
          /\ tid[s] = 3
          /\ pc[t] = "lock_stmt"

C8_OneRowPerObject ==
    ~keep_history =>
        /\ \A z \in Oids :
              /\ Cardinality({r \in object_state : r.zoid = z}) <= 1
              /\ last_finalized[z].tid # 0 =>
                    \E r \in object_state :
                        /\ r.zoid = z
                        /\ r.tid = last_finalized[z].tid
                        /\ r.state = last_finalized[z].state
        /\ \A s \in Sessions :
              pc[s] \in {"moved", "finalized"} =>
                  \A z \in Oids :
                      /\ Cardinality({r \in ViewObjectState(s) : r.zoid = z}) <= 1
                      /\ z \in StagedOids(temp_store[s]) =>
                            \E r \in ViewObjectState(s) :
                                /\ r.zoid = z
                                /\ r.tid = tid[s]
                                /\ r.state = StagedRow(temp_store[s], z).state

\* A session has moved its row over the row another transaction committed
\* with another payload.
C8_Witness ==
    /\ ~keep_history
    /\ \E s \in Sessions :
          /\ pc[s] = "moved"
          /\ \E z \in StagedOids(temp_store[s]) :
                \E r \in object_state :
                    /\ r.zoid = z
                    /\ r.state # StagedRow(temp_store[s], z).state

\* C9: no two sessions each wait for a row lock the other holds; a
\* session locks its rows in ascending zoid order, whatever the order it
\* staged them in; and the committed tables are those a serial execution
\* of the committed transactions gives.
C9_NoDeadlockInLockCurrentObjects ==
    /\ \A s, t \in Sessions : s # t => ~(WaitsForRow(s, t) /\ WaitsForRow(t, s))
    /\ \A s \in Sessions :
          /\ IsAscending(lock_queue[s])
          /\ pc[s] = "locking" =>
                \A z \in Oids : row_lock[z] = s => z < Head(lock_queue[s])
    /\ object_state = serial.object_state
    /\ current_object = serial.current_object

\* Two sessions staged the same two objects in opposite orders; one holds
\* the lock of the first row and the other waits for it.
C9_Witness ==
    \E s, t \in Sessions :
        /\ s # t
        /\ Len(temp_store[s]) = 2
        /\ Len(temp_store[t]) = 2
        /\ temp_store[s][1].zoid = temp_store[t][2].zoid
        /\ temp_store[s][2].zoid = temp_store[t][1].zoid
        /\ temp_store[s][1].zoid < temp_store[s][2].zoid
        /\ pc[s] = "locking"
        /\ row_lock[temp_store[s][1].zoid] = s
        /\ WaitsForRow(t, s)

(***************************************************************************)
(* The pipeline of one session that also copies transactions into the      *)
(* database: it takes the commit lock, restores revisions under the tid    *)
(* of the transaction it copies, and finalizes.  At most MaxTid            *)
(* transactions are committed.                                             *)
(***************************************************************************)
\* tpc_begin with a tid: the commit lock is taken first.
CopyBegins(s) ==
    /\ pc[s] = "idle"
    /\ Len(commit_log) < MaxTid
    /\ hold_commit_lock(s, FALSE)

CopyRestores(s) ==
    /\ \E oid \in Oids, t \in Tids, data \in {"B", None} : restore(s, oid, t, data)
    /\ UNCHANGED returned

StoreStages(s) ==
    /\ Len(commit_log) < MaxTid
    /\ CallerStores(s)

StoreAssignsTid(s) ==
    /\ temp_store[s] # <<>>
    /\ AssignTid(s)

NextRestore ==
    LET s == OneSession
    IN  \/ StoreStages(s)
        \/ lock_current_objects(s, {})
        \/ LockRow(s)
        \/ DetectConflict(s)
        \/ replace_temp(s, Payload(s))
        \/ CallerHoldsCommitLock(s)
        \/ CopyBegins(s)
        \/ CommitLockGranted(s)
        \/ StoreAssignsTid(s)
        \/ CopyRestores(s)
        \/ \E txn_has_blobs \in BOOLEAN : move_from_temp(s, txn_has_blobs)
        \/ (update_current(s) /\ UNCHANGED returned)
        \/ Commit(s)
        \/ Rollback(s)

SpecRestore == Init /\ [][NextRestore]_vars

(***************************************************************************)
(* Properties of the pipeline with restore (SpecRestore).                  *)
(***************************************************************************)
\* C6: history preserving: a committed object_state row is immutable:
\* whatever the mover does next (store_temp, move_from_temp,
\* update_current, restore), the revision (zoid, tid) is still there and
\* reads the same bytes.
C6_ObjectStateRowImmutable ==
    [][keep_history =>
          \A r \in object_state :
              \E q \in object_state' :
                  q.zoid = r.zoid /\ q.tid = r.tid /\ q.state = r.state]_vars

\* The session committed a revision of object 1 with the bytes "A" under
\* tid 1, and a later restore of (1, 1) has put other bytes in that row.
C6_Witness ==
    /\ keep_history
    /\ last_finalized[1] = [tid |-> 1, state |-> "A"]
    /\ \E r \in object_state : r.zoid = 1 /\ r.tid = 1 /\ r.state = "B"

(***************************************************************************)
(* The query properties alone: an instance, history preserving or history  *)
(* free, whose query property is read again and again.  The pair of the    *)
(* property is one of the pairs of the source or any pair of a query, an   *)
(* instance of an exception and an exception class.                        *)
(***************************************************************************)
VariantMembers(template) ==
    {IF template THEN "SELECT %(TRUE)s" ELSE "EXECUTE move_from_temp(%s)",
     UnsupportedInstance, UnsupportedClass}

VariantPairs(template) ==
    (VariantMembers(template) \X VariantMembers(template))
        \cup (IF template THEN {}
              ELSE {_commit_lock_queries, _commit_lock_nowait_queries,
                    _move_from_temp_hf_insert_queries})

VariantDicts ==
    {InstDict(queries, extension, formatted) :
        queries \in VariantPairs(TRUE), extension \in {"", " FOR UPDATE"},
        formatted \in {TRUE}}
    \cup
    {InstDict(queries, extension, formatted) :
        queries \in VariantPairs(FALSE), extension \in {"", " FOR UPDATE"},
        formatted \in {FALSE}}

InitVariant ==
    /\ keep_history \in BOOLEAN
    /\ mover = "postgresql"
    /\ supports_row_lock_nowait = TRUE
    /\ InitDatabase
    /\ InitSessions
    /\ InitGhosts
    /\ inst_dict \in VariantDicts
    /\ lobject = <<>>
    /\ files = InitFiles
    /\ copy_buffer = NoBuffer
    /\ copy_stream = <<>>
    /\ returned = NoCall

\* inst._query, for the query property of the instance
AccessQueryProperty ==
    /\ returned.n < MaxCalls
    /\ LET r == Lazy(inst_dict)
       IN  /\ inst_dict' = r.dict
           /\ returned' = [call |-> "_query", args |-> <<>>, raised |-> r.raised,
                           result |-> r.value, statements |-> 0,
                           n |-> returned.n + 1]
    /\ UNCHANGED <<config_vars, copy_buffer, copy_stream,
                   lobject, files, db_vars, ghost_vars, txn,
                   temp_store, temp_blob_chunk, row_lock, commit_row_lock,
                   row_lock_timeout, timeout_installs, pc, lock_queue, conflicts, tid, lock_call,
                   lock_result, validated, restored>>

\* inst._compute_md5sum(data)
CallComputeMd5sum(data) ==
    /\ returned.n < MaxCalls
    /\ LET call == noop_when_history_free(inst_dict, "_compute_md5sum")
       IN  /\ inst_dict' = call.dict
           /\ returned' = [call |-> "_compute_md5sum", args |-> <<data>>,
                           raised |-> FALSE,
                           result |-> IF call.called = "no_op" THEN None
                                      ELSE _compute_md5sum_meth(data),
                           statements |-> 0, n |-> returned.n + 1]
    /\ UNCHANGED <<config_vars, copy_buffer, copy_stream,
                   lobject, files, db_vars, ghost_vars, txn,
                   temp_store, temp_blob_chunk, row_lock, commit_row_lock,
                   row_lock_timeout, timeout_installs, pc, lock_queue, conflicts, tid, lock_call,
                   lock_result, validated, restored>>

NextVariant ==
    \/ AccessQueryProperty
    \/ \E data \in {"A", None} : CallComputeMd5sum(data)

SpecVariant == InitVariant /\ [][NextVariant]_vars

(***************************************************************************)
(* Properties of the query properties (SpecVariant).                       *)
(***************************************************************************)
\* C13: a query property gives the first member of its pair on a history
\* preserving instance and the second on a history free one (with the
\* extension appended and the result formatted, when the property has
\* them); when that member is an instance of an exception or an exception
\* class, reading the property raises it, the first time and every time
\* after, and nothing is kept in the instance for it.
C13_QueryPropertySelects ==
    LET member == IF keep_history THEN inst_dict._queries[1]
                  ELSE inst_dict._queries[2]
        extended == member \o inst_dict.extension
    IN  returned.call = "_query" =>
            IF member \in {UnsupportedInstance, UnsupportedClass}
            THEN /\ returned.raised
                 /\ returned.result = member
                 /\ inst_dict._query = Unset
            ELSE /\ ~returned.raised
                 /\ returned.result =
                        (IF inst_dict.formatted
                         THEN (IF inst_dict.extension = "" THEN "SELECT 1"
                               ELSE "SELECT 1 FOR UPDATE")
                         ELSE extended)
                 /\ inst_dict._query = returned.result

\* The pair of PostgreSQLObjectMover._move_from_temp_hf_insert_queries on
\* a history preserving instance: the property has raised Unsupported for
\* the second time.
C13_Witness ==
    /\ keep_history
    /\ inst_dict._queries = _move_from_temp_hf_insert_queries
    /\ returned.call = "_query"
    /\ returned.n >= 2
    /\ returned.raised
    /\ returned.result = UnsupportedInstance

(***************************************************************************)
(* The decorated methods in use: one session runs transaction after        *)
(* transaction through the pipeline on one instance, so that               *)
(* update_current is called first through the swizzler and then through    *)
(* the attribute it has set, and _compute_md5sum is called in between.     *)
(***************************************************************************)
NextNoop ==
    LET s == OneSession
    IN  \/ StoreStages(s)
        \/ lock_current_objects(s, {})
        \/ LockRow(s)
        \/ DetectConflict(s)
        \/ replace_temp(s, Payload(s))
        \/ CallerHoldsCommitLock(s)
        \/ CommitLockGranted(s)
        \/ StoreAssignsTid(s)
        \/ \E txn_has_blobs \in BOOLEAN : move_from_temp(s, txn_has_blobs)
        \/ (update_current(s) /\ UNCHANGED returned)
        \/ Commit(s)
        \/ Rollback(s)
        \/ \E data \in {"A", None} : CallComputeMd5sum(data)

SpecNoop == Init /\ [][NextNoop]_vars

(***************************************************************************)
(* Properties of the decorated methods (SpecNoop).                         *)
(***************************************************************************)
\* C14: a method decorated with noop_when_history_free does, at every
\* call, what a method that branches on keep_history first does.  On a
\* history free instance _compute_md5sum returns None and update_current
\* succeeds, executes no statement and changes nothing in the
\* transaction; on a history preserving instance _compute_md5sum returns
\* what the wrapped method returns for the same data, and update_current
\* fails when the wrapped method fails and else leaves current_object as
\* the wrapped method does.
C14_NoopWhenHistoryFreeIsBranch ==
    [][/\ returned'.call = "_compute_md5sum" =>
              /\ returned'.result = _compute_md5sum(returned'.args[1])
              /\ ~returned'.raised
              /\ returned'.statements = 0
       /\ \A s \in Sessions :
             (pc[s] = "moved" /\ pc'[s] \in {"finalized", "failed"}) =>
                 IF ~keep_history
                 THEN /\ pc'[s] = "finalized"
                      /\ txn'[s] = txn[s]
                      /\ row_lock' = row_lock
                 ELSE IF update_current_fails(ViewObjectState(s),
                                              ViewCurrentObject(s), tid[s])
                 THEN /\ pc'[s] = "failed"
                      /\ txn'[s] = txn[s]
                 ELSE /\ pc'[s] = "finalized"
                      /\ txn'[s].current_object =
                            update_current_table(ViewObjectState(s),
                                                 ViewCurrentObject(s), tid[s])
                      /\ txn'[s].object_state = ViewObjectState(s)
                      /\ txn'[s].blob_chunk = ViewBlobChunk(s)]_vars

\* A history free instance on which update_current has run in two
\* committed transactions, the second time as the no_op the first call
\* set on the instance, and _compute_md5sum has returned None for a
\* payload that is not None.
C14_Witness ==
    /\ ~keep_history
    /\ inst_dict.update_current = "no_op"
    /\ inst_dict._compute_md5sum = "no_op"
    /\ Len(commit_log) = 2
    /\ returned.call = "_compute_md5sum"
    /\ returned.args = <<"A">>
    /\ returned.result = None

(***************************************************************************)
(* Staging alone: one session stages through store_temp and store_temps,   *)
(* any object any number of times.  returned.args is the list of the       *)
(* elements passed so far, each (data, oid_int, tid_int).                  *)
(***************************************************************************)
StageElements == {"A", "B"} \X Oids \X {0, 1}

\* The lists of at most n elements
StageIters(n) == UNION {[1..k -> StageElements] : k \in 0..n}

CallStoreTemp(s) ==
    /\ Len(returned.args) < MaxCalls
    /\ \E e \in StageElements :
          /\ store_temp(s, e[2], e[3], e[1])
          /\ returned' = [call |-> "store_temp", args |-> Append(returned.args, e),
                          raised |-> FALSE, result |-> None, statements |-> 0,
                          n |-> returned.n + 1]

CallStoreTemps(s) ==
    /\ returned.n < MaxCalls
    /\ \E state_oid_tid_iter \in StageIters(MaxCalls - Len(returned.args)) :
          /\ store_temps(s, state_oid_tid_iter)
          /\ returned' = [call |-> "store_temps",
                          args |-> returned.args \o state_oid_tid_iter,
                          raised |-> pc'[s] = "failed",
                          result |-> None, statements |-> 0,
                          n |-> returned.n + 1]

NextStage ==
    \/ CallStoreTemp(OneSession)
    \/ CallStoreTemps(OneSession)

SpecStage == Init /\ [][NextStage]_vars

\* C15: after any sequence of store_temp calls of one session, temp_store
\* holds at most one row per object, and the row of an object carries the
\* prev_tid and the payload of the last call that named it: staging the
\* same object twice overwrites.
C15_StoreTempOverwrites ==
    LET s == OneSession
        log == returned.args
        temp == temp_store[s]
    IN  returned.call = "store_temp" =>
          /\ pc[s] = "staging"
          /\ \A oid \in Oids :
                LET rows == {i \in DOMAIN temp : temp[i].zoid = oid}
                    named == {i \in DOMAIN log : log[i][2] = oid}
                IN  IF named # {}
                    THEN /\ Cardinality(rows) = 1
                         /\ \A i \in rows :
                               /\ temp[i].prev_tid = log[Max(named)][3]
                               /\ temp[i].state = log[Max(named)][1]
                    ELSE rows = {}

\* One object staged twice by store_temp, with another prev_tid and another
\* payload the second time, and one row of it staged.
C15_Witness ==
    LET s == OneSession
        log == returned.args
        temp == temp_store[s]
    IN  /\ returned.call = "store_temp"
        /\ returned.n = 2
        /\ Len(log) = 2
        /\ log[1][2] = log[2][2]
        /\ log[1][1] # log[2][1]
        /\ log[1][3] # log[2][3]
        /\ Len(temp) = 1
        /\ temp[1].state = log[2][1]
        /\ temp[1].prev_tid = log[2][3]

\* C16: store_temps over a sequence of (payload, oid, prev_tid) leaves
\* temp_store in the same state as store_temp called for each element in
\* turn and flushed, for every sequence, the empty one and those naming an
\* object more than once included, for the row batcher and for the
\* PostgreSQL COPY alike.
C16_StoreTempsAsStoreTempEach ==
    [][LET s == OneSession
           state_oid_tid_iter == SubSeq(returned'.args, Len(returned.args) + 1,
                                        Len(returned'.args))
       IN  (returned'.call = "store_temps" /\ returned'.n # returned.n) =>
             /\ ~returned'.raised
             /\ Range(temp_store'[s]) =
                   Range(store_temp_each(temp_store[s], state_oid_tid_iter))]_vars

\* The COPY of a sequence that names one object twice has raised.
C16_Witness ==
    LET log == returned.args
    IN  /\ mover = "postgresql"
        /\ returned.call = "store_temps"
        /\ returned.n = 1
        /\ returned.raised
        /\ Len(log) = 2
        /\ log[1][2] = log[2][2]
        /\ pc[OneSession] = "failed"

(***************************************************************************)
(* Blobs alone: one session of a PostgreSQL adapter uploads files and      *)
(* downloads blobs, over a database that holds revisions of two objects.   *)
(***************************************************************************)
BlobOids == {4, 5}

BlobTids == {10, 11}

\* The revisions committed: object 4 at both tids, object 5 at the first
\* only; history free, the last of each.
BlobRevisions == {<<4, 10>>, <<4, 11>>, <<5, 10>>}

BlobCurrent == [z \in BlobOids |-> Max({k[2] : k \in {k \in BlobRevisions : k[1] = z}})]

BlobObjectState ==
    IF keep_history
    THEN {[zoid |-> k[1], tid |-> k[2], prev_tid |-> 0, md5 |-> md5("A"),
           state_size |-> 1, state |-> "A"] : k \in BlobRevisions}
    ELSE {[zoid |-> z, tid |-> BlobCurrent[z], state_size |-> 1, state |-> "A"] :
             z \in BlobOids}

InitBlob ==
    /\ keep_history \in BOOLEAN
    /\ mover = "postgresql"
    /\ supports_row_lock_nowait = TRUE
    /\ InitSessions
    /\ InitGhosts
    /\ InitEnv
    /\ object_state = BlobObjectState
    /\ current_object = IF keep_history THEN BlobCurrent ELSE [z \in BlobOids |-> 0]
    /\ blob_chunk = {}
    /\ transaction_tid = Max(BlobTids)
    /\ row_lock = [z \in Oids |-> NoSession]
    /\ commit_row_lock = NoSession

CallUploadBlob(s) ==
    /\ returned.n < MaxCalls
    /\ \E oid \in BlobOids, t \in BlobTids \cup {NoneTid},
          filename \in {"source", "empty", "dest"} :
          upload_blob(s, oid, t, filename)

CallDownloadBlob(s) ==
    /\ returned.n < MaxCalls
    /\ \E oid \in BlobOids, t \in BlobTids : download_blob(s, oid, t, "dest")

NextBlob ==
    \/ CallUploadBlob(OneSession)
    \/ CallDownloadBlob(OneSession)
    \/ Rollback(OneSession)

SpecBlob == InitBlob /\ [][NextBlob]_vars

\* C20: upload_blob(oid, tid, source) followed by download_blob(oid, tid,
\* dest), with the upload not rolled back in between, returns the number
\* of bytes of the source and leaves dest equal to the source byte for
\* byte.
C20_DownloadReturnsUpload ==
    [][(/\ returned.call = "upload_blob"
        /\ ~returned.raised
        /\ pc[OneSession] # "idle"
        /\ returned.args[2] # NoneTid
        /\ returned'.call = "download_blob"
        /\ returned'.n = returned.n + 1
        /\ returned'.args[1] = returned.args[1]
        /\ returned'.args[2] = returned.args[2])
       => LET source == files[returned.args[3]]
              dest == files'[returned'.args[3]]
          IN  /\ ~returned'.raised
              /\ returned'.result = Len(source.bytes)
              /\ dest.exists
              /\ dest.bytes = source.bytes]_vars

\* The 10-byte file uploaded for oid 4, tid 10 and downloaded: 10 is
\* returned and dest holds the bytes of the source.
C20_Witness ==
    /\ returned.call = "download_blob"
    /\ returned.args = <<4, 10, "dest">>
    /\ ~returned.raised
    /\ returned.result = 10
    /\ Len(lobject) = 1
    /\ Len(lobject[1]) > 1
    /\ files.dest = files.source
    /\ Len(files.source.bytes) = 10

(***************************************************************************)
(* Transactions of one session with blobs and with retries: the session    *)
(* uploads blobs for objects it has staged, and runs move_from_temp again, *)
(* under the same tid or under a new one, before it goes on.               *)
(***************************************************************************)
\* storeBlob: the blob of an object is uploaded to the temporary table
\* after the object is staged
StoreUploadsBlob(s) ==
    /\ pc[s] = "staging"
    /\ returned.n < MaxCalls
    /\ \E oid \in StagedOids(temp_store[s]) :
          upload_blob(s, oid, NoneTid, "source")

\* The caller finalizes again under the tid it has
RetrySameTid(s) ==
    /\ pc[s] = "moved"
    /\ pc' = [pc EXCEPT ![s] = "tid_assigned"]
    /\ UNCHANGED <<config_vars, env_vars, returned, db_vars, ghost_vars, txn, temp_store,
                   temp_blob_chunk, row_lock, commit_row_lock, row_lock_timeout, timeout_installs,
                   lock_queue, conflicts, tid, lock_call, lock_result, validated,
                   restored>>

\* The caller finalizes again under a new tid
RetryNewTid(s) ==
    /\ pc[s] = "moved"
    /\ tid[s] < MaxTid
    /\ tid' = [tid EXCEPT ![s] = @ + 1]
    /\ pc' = [pc EXCEPT ![s] = "tid_assigned"]
    /\ UNCHANGED <<config_vars, env_vars, returned, db_vars, ghost_vars, txn, temp_store,
                   temp_blob_chunk, row_lock, commit_row_lock, row_lock_timeout, timeout_installs,
                   lock_queue, conflicts, lock_call, lock_result, validated,
                   restored>>

NextRetry ==
    LET s == OneSession
    IN  \/ StoreStages(s)
        \/ StoreUploadsBlob(s)
        \/ lock_current_objects(s, {})
        \/ LockRow(s)
        \/ DetectConflict(s)
        \/ replace_temp(s, Payload(s))
        \/ CallerHoldsCommitLock(s)
        \/ CommitLockGranted(s)
        \/ StoreAssignsTid(s)
        \/ \E txn_has_blobs \in BOOLEAN : move_from_temp(s, txn_has_blobs)
        \/ RetrySameTid(s)
        \/ RetryNewTid(s)
        \/ (update_current(s) /\ UNCHANGED returned)
        \/ Commit(s)
        \/ Rollback(s)

SpecRetry == Init /\ [][NextRetry]_vars

\* C17: at the end of every transaction of a session, committed or
\* aborted, temp_store and temp_blob_chunk of the session are empty: the
\* next transaction sees no row the one before has staged.
C17_StagingEmptyAfterTransaction ==
    \A s \in Sessions :
        pc[s] = "idle" => temp_store[s] = <<>> /\ temp_blob_chunk[s] = {}

\* A transaction that staged an object and its blob has committed: both
\* are in the tables and the staging area is empty.
C17_Witness ==
    LET s == OneSession
    IN  /\ pc[s] = "idle"
        /\ commit_log # <<>>
        /\ object_state # {}
        /\ blob_chunk # {}
        /\ temp_store[s] = <<>>
        /\ temp_blob_chunk[s] = {}

\* C18: history free, move_from_temp run again with the same staged rows
\* and a new tid succeeds and leaves object_state with the same objects,
\* the same payload and size for each, exactly one row per object, and the
\* new tid on the rows of the staged objects.
C18_HistoryFreeRetryIsIdempotent ==
    [][LET s == OneSession
       IN  (/\ ~keep_history
            /\ pc[s] = "tid_assigned"
            /\ txn[s].dirty
            /\ \A r \in txn[s].object_state : r.tid # tid[s]
            /\ pc'[s] \in {"moved", "failed"})
           => /\ pc'[s] = "moved"
              /\ LET os == txn[s].object_state
                     os2 == txn'[s].object_state
                 IN  /\ {r.zoid : r \in os2} = {r.zoid : r \in os}
                     /\ \A r \in os, r2 \in os2 :
                           r.zoid = r2.zoid =>
                             /\ r2.state = r.state
                             /\ r2.state_size = r.state_size
                             /\ r2.tid = IF r.zoid \in StagedOids(temp_store[s])
                                         THEN tid[s] ELSE r.tid
                     /\ \A r, r2 \in os2 : r.zoid = r2.zoid => r = r2]_vars

\* History free, an object was moved under one tid and again under the
\* next: its one row carries the second tid.
C18_Witness ==
    LET s == OneSession
    IN  /\ ~keep_history
        /\ pc[s] = "moved"
        /\ txn[s].dirty
        /\ tid[s] = transaction_tid + 2
        /\ temp_store[s] # <<>>
        /\ \A z \in StagedOids(temp_store[s]) :
              \E r \in txn[s].object_state : r.zoid = z /\ r.tid = tid[s]
        /\ \A r \in txn[s].object_state : r.tid # tid[s] - 1

\* C19: history preserving, move_from_temp run a second time with the same
\* tid and the same staged rows fails on the key (zoid, tid) of
\* object_state, and object_state never holds two rows of one (zoid, tid).
C19_HistoryPreservingRetryFails ==
    [][LET s == OneSession
       IN  /\ (/\ keep_history
               /\ pc[s] = "tid_assigned"
               /\ txn[s].dirty
               /\ temp_store[s] # <<>>
               /\ \E r \in txn[s].object_state : r.tid = tid[s]
               /\ pc'[s] \in {"moved", "failed"})
              => (pc'[s] = "failed" /\ txn'[s] = txn[s])
           /\ \A r, r2 \in ViewObjectState(s)' :
                 (r.zoid = r2.zoid /\ r.tid = r2.tid) => r = r2]_vars

\* History preserving, the second move_from_temp under the tid of the
\* first has failed: the rows of the first are there, once.
C19_Witness ==
    LET s == OneSession
    IN  /\ keep_history
        /\ pc[s] = "failed"
        /\ txn[s].dirty
        /\ temp_store[s] # <<>>
        /\ \A z \in StagedOids(temp_store[s]) :
              Cardinality({r \in txn[s].object_state :
                              r.zoid = z /\ r.tid = tid[s]}) = 1

\* C21: download_blob(oid, tid, dest) raises a not-found error, distinct
\* from a generic I/O or internal failure, whenever blob_chunk holds no row
\* for (oid, tid).  The not-found errors are ObjectNotFound of the error
\* surface and POSKeyError of ZODB.
C21_DownloadMissingBlobIsNotFound ==
    [][LET s == OneSession
       IN  (/\ returned'.call = "download_blob"
            /\ returned'.n # returned.n
            /\ ~\E b \in ViewBlobChunk(s) :
                    b.zoid = returned'.args[1] /\ b.tid = returned'.args[2])
           => /\ returned'.raised
              /\ returned'.result \in {"ObjectNotFound", "POSKeyError"}]_vars

\* download_blob has raised for a key that has no row.
C21_Witness ==
    /\ returned.call = "download_blob"
    /\ returned.raised
    /\ returned.result \in {"AssertionError", "IndexError"}
    /\ ~\E b \in ViewBlobChunk(OneSession) :
            b.zoid = returned.args[1] /\ b.tid = returned.args[2]

\* C22: after any sequence of upload_blob calls each blob key, (oid, tid)
\* for the permanent chunks of a history-preserving database, oid alone
\* history free and in the temporary table, has at most one chunk row,
\* every chunk row has chunk_num 0, and a later upload for a key replaces
\* the chunk of an earlier one.
C22_OneChunkPerBlobKey ==
    [][LET s == OneSession
           blobs == ViewBlobChunk(s)'
           tblobs == temp_blob_chunk'[s]
           oid == returned'.args[1]
           t == returned'.args[2]
       IN  /\ \A b \in blobs \cup tblobs : b.chunk_num = 0
           /\ \A b, b2 \in blobs :
                 (b.zoid = b2.zoid /\ (keep_history => b.tid = b2.tid)) => b = b2
           /\ \A b, b2 \in tblobs : b.zoid = b2.zoid => b = b2
           /\ (/\ returned'.call = "upload_blob"
               /\ returned'.n # returned.n
               /\ ~returned'.raised)
              => IF t = NoneTid
                 THEN \E b \in tblobs : b.zoid = oid /\ b.chunk = Len(lobject')
                 ELSE \E b \in blobs :
                         b.zoid = oid /\ b.tid = t /\ b.chunk = Len(lobject')]_vars

\* Two uploads for one key, permanent or temporary, in one transaction:
\* the key has the chunk of the second.
C22_Witness ==
    LET s == OneSession
    IN  /\ returned.call = "upload_blob"
        /\ returned.n = 2
        /\ ~returned.raised
        /\ Len(lobject) = 2
        /\ \/ /\ txn[s].dirty
              /\ txn[s].blob_chunk = {[zoid |-> returned.args[1], tid |-> returned.args[2],
                                       chunk_num |-> 0, chunk |-> 2]}
              /\ temp_blob_chunk[s] = {}
           \/ /\ ~txn[s].dirty
              /\ returned.args[2] = NoneTid
              /\ temp_blob_chunk[s] = {[zoid |-> returned.args[1],
                                        chunk_num |-> 0, chunk |-> 2]}

(***************************************************************************)
(* Transactions of one session that write any payload, the empty one and   *)
(* None included, through store_temp and through restore.                  *)
(***************************************************************************)
\* The caller stages an object it has not staged yet, with any payload
AnyStores(s) ==
    /\ Len(commit_log) < MaxTid
    /\ pc[s] = "idle" => transaction_tid < MaxTid
    /\ \E oid \in Oids \ StagedOids(temp_store[s]), data \in {"A", "", None} :
          \E prev_tid \in CallerPrevTids(s, oid) :
              /\ store_temp(s, oid, prev_tid, data)
              /\ returned' = [call |-> "store_temp", args |-> <<data, oid, prev_tid>>,
                              raised |-> _generic_store_temp_raises(data),
                              result |-> None, statements |-> 0, n |-> 0]

\* The caller restores a revision of the next transaction, with a payload
\* or with the empty one
AnyRestores(s) ==
    \E oid \in Oids, t \in {transaction_tid + 1} \cap Tids, data \in {"B", ""} :
        /\ restore(s, oid, t, data)
        /\ returned' = [call |-> "restore", args |-> <<data, oid, t>>,
                        raised |-> FALSE, result |-> None, statements |-> 0,
                        n |-> 0]

NextAny ==
    LET s == OneSession
    IN  \/ AnyStores(s)
        \/ lock_current_objects(s, {})
        \/ LockRow(s)
        \/ DetectConflict(s)
        \/ replace_temp(s, Payload(s))
        \/ CallerHoldsCommitLock(s)
        \/ CopyBegins(s)
        \/ CommitLockGranted(s)
        \/ StoreAssignsTid(s)
        \/ AnyRestores(s)
        \/ \E txn_has_blobs \in BOOLEAN : move_from_temp(s, txn_has_blobs)
        \/ (update_current(s) /\ UNCHANGED returned)
        \/ Commit(s)
        \/ Rollback(s)

SpecAny == Init /\ [][NextAny]_vars

\* C23: history preserving, staging an object with a null or an empty
\* payload succeeds and leaves a staged row for it, and finalization turns
\* the row into an object_state row at the new tid with that null or empty
\* state and state_size 0.
C23_EmptyPayloadIsTombstone ==
    [][LET s == OneSession
           empty(temp) == {i \in DOMAIN temp : temp[i].state \in {"", None}}
       IN  keep_history =>
             /\ (/\ pc[s] \in {"idle", "staging"}
                 /\ pc'[s] \in {"staging", "failed"}
                 /\ returned'.call = "store_temp"
                 /\ returned'.args[1] \in {"", None})
                => /\ pc'[s] = "staging"
                   /\ \E i \in DOMAIN temp_store'[s] :
                         /\ temp_store'[s][i].zoid = returned'.args[2]
                         /\ temp_store'[s][i].state = returned'.args[1]
             /\ (/\ pc[s] = "tid_assigned"
                 /\ pc'[s] \in {"moved", "failed"}
                 /\ empty(temp_store[s]) # {})
                => /\ pc'[s] = "moved"
                   /\ \A i \in empty(temp_store[s]) :
                         \E r \in txn'[s].object_state :
                            /\ r.zoid = temp_store[s][i].zoid
                            /\ r.tid = tid[s]
                            /\ r.state = temp_store[s][i].state
                            /\ r.state_size = 0]_vars

\* History preserving, an object staged with the empty payload has been
\* finalized: its row at the new tid has the empty state and size 0.
C23_Witness ==
    LET s == OneSession
    IN  /\ keep_history
        /\ pc[s] = "moved"
        /\ \E i \in DOMAIN temp_store[s] :
              /\ temp_store[s][i].state = ""
              /\ \E r \in txn[s].object_state :
                    /\ r.zoid = temp_store[s][i].zoid
                    /\ r.tid = tid[s]
                    /\ r.state = ""
                    /\ r.state_size = 0

\* C24: history free, writing the empty payload for an object removes the
\* row the object has in object_state and leaves no row with empty
\* content, through store_temp and move_from_temp as through restore.
C24_HistoryFreeEmptyPayloadDeletes ==
    [][LET s == OneSession
           temp == temp_store[s]
       IN  ~keep_history =>
             /\ (pc[s] = "tid_assigned" /\ pc'[s] = "moved")
                => \A i \in DOMAIN temp :
                      temp[i].state = "" =>
                         ~\E r \in txn'[s].object_state : r.zoid = temp[i].zoid
             /\ (/\ pc[s] \in {"commit_locked", "restoring"}
                 /\ pc'[s] = "restoring"
                 /\ returned'.call = "restore"
                 /\ returned'.args[1] = "")
                => ~\E r \in txn'[s].object_state : r.zoid = returned'.args[2]]_vars

\* History free, an object that has a row with a payload was staged with
\* the empty payload and finalized: it has a row with empty state.
C24_Witness ==
    LET s == OneSession
    IN  /\ ~keep_history
        /\ pc[s] = "moved"
        /\ \E i \in DOMAIN temp_store[s] :
              /\ temp_store[s][i].state = ""
              /\ \E r \in object_state :
                    r.zoid = temp_store[s][i].zoid /\ r.state = "A"
              /\ \E r \in txn[s].object_state :
                    /\ r.zoid = temp_store[s][i].zoid
                    /\ r.state = ""
                    /\ r.state_size = 0


(***************************************************************************)
(* C25.  The order of the row locks of lock_current_objects.               *)
(***************************************************************************)
\* C25: whenever a session calls lock_current_objects, with any
\* current_oids and after staging in any order, the rows the call goes on
\* to lock are in ascending zoid order and include every staged object
\* that has a current row.
C25_RowLocksAscendingOverUnion ==
    [][\A s \in Sessions :
          (pc[s] = "staging" /\ pc'[s] \in {"locking", "rows_locked"}) =>
              /\ IsAscending(lock_queue'[s])
              /\ _get_current_objects_query(temp_store[s], ViewObjectState(s),
                                            ViewCurrentObject(s))
                    \subseteq Range(lock_queue'[s])]_vars

\* A call with current_oids: the session is about to lock two rows, one
\* of an object it staged and one of an object it did not stage.
C25_Witness ==
    \E s \in Sessions :
        /\ pc[s] = "locking"
        /\ Len(lock_queue[s]) = 2
        /\ \E z \in Range(lock_queue[s]) : z \in StagedOids(temp_store[s])
        /\ \E z \in Range(lock_queue[s]) : z \notin StagedOids(temp_store[s])

C27_DebugInfoFailureDoesNotMask ==
    \A s \in Sessions :
        lock_result[s].debug = "nested_exception" =>
            /\ ~lock_call[s].nowait
            /\ lock_result[s].outcome \in lock_exceptions
            /\ lock_result[s].result = "UnableToAcquireCommitLockError"
            /\ Len(lock_result[s].message) > 1
            /\ lock_result[s].message[2] = lock_result[s].outcome
            /\ pc[s] = "failed"

\* A blocking call has met the lock held by another session, and the
\* debug info raised.
C27_Witness ==
    \E s, t \in Sessions :
        /\ s # t
        /\ commit_row_lock = t
        /\ ~lock_call[s].nowait
        /\ lock_result[s].outcome = "lock_exception"
        /\ lock_result[s].debug = "nested_exception"
        /\ lock_result[s].result = "UnableToAcquireCommitLockError"

(***************************************************************************)
(* C28.  Who writes the permanent tables: one session that stores and      *)
(* copies transactions, blobs included, and whose commit lock statement    *)
(* can fail.                                                               *)
(***************************************************************************)
\* restoreBlob: the blob of a revision the copy has restored is uploaded
\* under the tid of that revision
CopyRestoresBlob(s) ==
    /\ pc[s] = "restoring"
    /\ mover = "postgresql"
    /\ lobject = <<>>
    /\ \E oid \in {z \in Oids : <<z, tid[s]>> \in restored[s]} :
          upload_blob(s, oid, tid[s], "source")

NextCopy ==
    LET s == OneSession
    IN  \/ StoreStages(s)
        \/ lock_current_objects(s, {})
        \/ LockRow(s)
        \/ DetectConflict(s)
        \/ replace_temp(s, Payload(s))
        \/ CallerHoldsCommitLock(s)
        \/ CopyBegins(s)
        \/ CommitLockGranted(s)
        \/ CommitLockStatementFails(s)
        \/ StoreAssignsTid(s)
        \/ AnyRestores(s)
        \/ CopyRestoresBlob(s)
        \/ \E txn_has_blobs \in BOOLEAN : move_from_temp(s, txn_has_blobs)
        \/ (update_current(s) /\ UNCHANGED returned)
        \/ Commit(s)
        \/ Rollback(s)

SpecCopy == Init /\ [][NextCopy]_vars

\* C28: a session whose transaction inserts, updates or deletes a row of
\* object_state, current_object or blob_chunk (by move_from_temp,
\* update_current, restore or upload_blob with a tid) holds the commit
\* lock when it does, and the committed tables change only when the
\* session that holds the commit lock commits.
C28_PermanentWritesUnderCommitLock ==
    [][/\ \A s \in Sessions :
             (txn'[s].dirty /\ txn'[s] # txn[s]) =>
                 (commit_row_lock = s /\ commit_row_lock' = s)
       /\ <<object_state, current_object, blob_chunk>>'
             # <<object_state, current_object, blob_chunk>> =>
                 \E s \in Sessions :
                     /\ commit_row_lock = s
                     /\ pc[s] = "finalized"
                     /\ pc'[s] = "idle"]_vars

\* A copying transaction that holds the commit lock has restored a
\* revision and uploaded its blob under the tid of the revision.
C28_Witness ==
    \E s \in Sessions :
        /\ commit_row_lock = s
        /\ pc[s] = "restoring"
        /\ \E b \in ViewBlobChunk(s) :
              /\ b.tid = tid[s]
              /\ <<b.zoid, b.tid>> \in restored[s]
              /\ \E r \in ViewObjectState(s) : r.zoid = b.zoid /\ r.tid = b.tid

(***************************************************************************)
(* update_current over any pointers and any staged rows: a history         *)
(* preserving database in which each object has a pointer or none, and a   *)
(* session that stores objects with any prev_tid and finalizes them.       *)
(***************************************************************************)
InitPointers ==
    /\ keep_history = TRUE
    /\ mover \in {"abstract", "postgresql"}
    /\ supports_row_lock_nowait = TRUE
    /\ InitSessions
    /\ InitGhosts
    /\ InitEnv
    /\ \E cur \in [Oids -> 0..(MaxTid - 1)] :
          /\ object_state =
                {[zoid |-> z, tid |-> cur[z], prev_tid |-> 0, md5 |-> md5("A"),
                  state_size |-> Length("A"), state |-> "A"] :
                     z \in {z \in Oids : cur[z] # 0}}
          /\ current_object = cur
    /\ blob_chunk = {}
    /\ transaction_tid = MaxTid - 1
    /\ row_lock = [z \in Oids |-> NoSession]
    /\ commit_row_lock = NoSession

\* store_temp(cursor, batcher, oid, prev_tid, data) with any prev_tid
UncheckedStores(s) ==
    /\ \E oid \in Oids \ StagedOids(temp_store[s]), prev_tid \in 0..transaction_tid :
          store_temp(s, oid, prev_tid, Payload(s))
    /\ UNCHANGED returned

\* update_current(cursor, tid), with the order in which its statements
\* wrote their rows
CallUpdateCurrent(s) ==
    /\ update_current(s)
    /\ LET os == ViewObjectState(s)
           cur == ViewCurrentObject(s)
           fails == update_current_meth_fails(os, cur, tid[s])
       IN  \E order \in (IF fails THEN {<<>>}
                          ELSE update_current_meth_order(os, cur, tid[s])) :
              returned' = [call |-> "update_current", args |-> <<tid[s]>>,
                           raised |-> fails, result |-> order,
                           statements |-> 0, n |-> 0]

NextPointers ==
    LET s == OneSession
    IN  \/ UncheckedStores(s)
        \/ lock_current_objects(s, {})
        \/ LockRow(s)
        \/ DetectConflict(s)
        \/ replace_temp(s, Payload(s))
        \/ CallerHoldsCommitLock(s)
        \/ CommitLockGranted(s)
        \/ StoreAssignsTid(s)
        \/ \E txn_has_blobs \in BOOLEAN : move_from_temp(s, txn_has_blobs)
        \/ CallUpdateCurrent(s)
        \/ Commit(s)
        \/ Rollback(s)

SpecPointers == InitPointers /\ [][NextPointers]_vars

\* C29: history preserving: for any pointers and any rows finalized under
\* the tid, update_current does not fail, and the table it leaves is both
\* the one the insert query followed by the update query of
\* AbstractObjectMover gives and the one the upsert of
\* PostgreSQLObjectMover gives.
C29_TwoStepAsUpsert ==
    [][LET s == OneSession
           os == ViewObjectState(s)
           cur == ViewCurrentObject(s)
           t == tid[s]
       IN  (pc[s] = "moved" /\ pc'[s] \in {"finalized", "failed"}) =>
              /\ pc'[s] = "finalized"
              /\ txn'[s].current_object = _update_current_upsert(os, cur, t)
              /\ txn'[s].current_object =
                    _update_current_update(os, _update_current_insert(os, cur, t), t)]_vars

\* The session has finalized a new object and a changed one: both
\* pointers are at its tid.
C29_Witness ==
    LET s == OneSession
    IN  /\ pc[s] = "finalized"
        /\ \E i, j \in DOMAIN temp_store[s] :
              /\ temp_store[s][i].prev_tid = 0
              /\ current_object[temp_store[s][i].zoid] = 0
              /\ temp_store[s][j].prev_tid # 0
              /\ current_object[temp_store[s][j].zoid] = temp_store[s][j].prev_tid
        /\ \A z \in StagedOids(temp_store[s]) : ViewCurrentObject(s)[z] = tid[s]

\* C30: each statement of update_current writes its rows of
\* current_object in ascending zoid order: the insert of the pointers of
\* new objects, and the update of the pointers of changed objects.
C30_UpdateCurrentWritesAscending ==
    (returned.call = "update_current" /\ ~returned.raised) =>
        /\ IsAscending(returned.result[1])
        /\ IsAscending(returned.result[2])

\* update_current has inserted the pointers of two new objects.
C30_Witness ==
    /\ returned.call = "update_current"
    /\ ~returned.raised
    /\ Len(returned.result[1]) = 2
    /\ mover = "abstract"

(***************************************************************************)
(* C31.  The blob of a replaced history-free row.                          *)
(***************************************************************************)
\* C31: history free: when move_from_temp replaces the row of an object,
\* the committed blob_chunk rows of that object are gone from the
\* transaction's blob_chunk afterwards, whatever txn_has_blobs is and
\* whichever mover runs.
C31_ReplacedRowLosesItsBlob ==
    [][LET s == OneSession
       IN  (/\ ~keep_history
            /\ pc[s] = "tid_assigned"
            /\ pc'[s] = "moved") =>
              \A b \in blob_chunk :
                  b.zoid \in StagedOids(temp_store[s]) => b \notin txn'[s].blob_chunk]_vars

\* A history-free transaction without blobs has replaced the row of an
\* object that has a committed blob.
C31_Witness ==
    LET s == OneSession
    IN  /\ ~keep_history
        /\ pc[s] = "moved"
        /\ temp_blob_chunk[s] = {}
        /\ \E b \in blob_chunk :
              /\ b.zoid \in StagedOids(temp_store[s])
              /\ b \notin ViewBlobChunk(s)

(***************************************************************************)
(* C32.  The temporary blob chunks at finalization.                        *)
(***************************************************************************)
\* C32: when move_from_temp has copied the rows of the session's
\* temp_blob_chunk into blob_chunk under the tid, temp_blob_chunk holds
\* none of them any more, and holds none when update_current has
\* completed the finalization.
C32_TempBlobChunksClearedByFinalization ==
    [][LET s == OneSession
           copied == _move_from_temp_copy_blob_rows(temp_blob_chunk[s], tid[s])
       IN  /\ (/\ pc[s] = "tid_assigned"
               /\ pc'[s] = "moved"
               /\ temp_blob_chunk[s] # {}
               /\ copied \subseteq txn'[s].blob_chunk) =>
                  temp_blob_chunk'[s] = {}
           /\ pc'[s] = "finalized" => temp_blob_chunk'[s] = {}]_vars

\* The finalization has copied a temporary chunk under the tid and is
\* complete.
C32_Witness ==
    LET s == OneSession
    IN  /\ pc[s] = "finalized"
        /\ \E b \in ViewBlobChunk(s) :
              /\ b.tid = tid[s]
              /\ b \notin blob_chunk
              /\ \E c \in temp_blob_chunk[s] : c.zoid = b.zoid /\ c.chunk = b.chunk

(***************************************************************************)
(* The staging calls alone, by two sessions: store_temp, store_temps and   *)
(* replace_temp with any object, staged or not, any prev_tid and payload.  *)
(***************************************************************************)
FrameStoreTemp(s) ==
    \E e \in StageElements :
        /\ store_temp(s, e[2], e[3], e[1])
        /\ returned' = [call |-> "store_temp", args |-> <<s, <<e>>>>,
                        raised |-> FALSE, result |-> None, statements |-> 0, n |-> 0]

\* store_temps(cursor, state_oid_tid_iter), as the first call of a session
FrameStoreTemps(s) ==
    \E state_oid_tid_iter \in StageIters(MaxOid) :
        /\ temp_store[s] = <<>>
        /\ store_temps(s, state_oid_tid_iter)
        /\ returned' = [call |-> "store_temps", args |-> <<s, <<>>>>,
                        raised |-> pc'[s] = "failed",
                        result |-> None, statements |-> 0, n |-> 0]

\* replace_temp(cursor, oid, prev_tid, data), called for any object
FrameReplaceTemp(s) ==
    /\ pc[s] \in {"idle", "staging"}
    /\ \E e \in StageElements :
          /\ temp_store' = [temp_store EXCEPT
                              ![s] = replace_temp_rows(@, e[2], e[3], e[1])]
          /\ returned' = [call |-> "replace_temp", args |-> <<s, <<e>>>>,
                          raised |-> FALSE, result |-> None, statements |-> 0, n |-> 0]
    /\ UNCHANGED <<config_vars, env_vars, db_vars, ghost_vars, txn, temp_blob_chunk, pc,
                   row_lock, commit_row_lock, row_lock_timeout, timeout_installs, lock_queue,
                   conflicts, tid, lock_call, lock_result, validated, restored>>

NextFrame ==
    \E s \in Sessions :
        \/ FrameStoreTemp(s)
        \/ FrameStoreTemps(s)
        \/ FrameReplaceTemp(s)

SpecFrame == Init /\ [][NextFrame]_vars

\* C33: replace_temp(oid, prev_tid, data) gives the staged row of oid the
\* prev_tid, the md5 of data and data, and changes nothing else: the
\* staged rows are as many as before and of the same objects, every row
\* of another object is as it was, and without a staged row of oid the
\* table is unchanged.
C33_ReplaceTempInPlace ==
    [][(returned'.call = "replace_temp" /\ returned' # returned) =>
          LET s == returned'.args[1]
              e == returned'.args[2][1]
              temp == temp_store[s]
              after == temp_store'[s]
          IN  /\ DOMAIN after = DOMAIN temp
              /\ \A i \in DOMAIN temp :
                    IF temp[i].zoid = e[2]
                    THEN after[i] = [zoid |-> e[2], prev_tid |-> e[3],
                                     md5 |-> _compute_md5sum(e[1]), state |-> e[1]]
                    ELSE after[i] = temp[i]
              /\ e[2] \notin StagedOids(temp) => after = temp]_vars

\* replace_temp has replaced the second of two staged rows by another
\* payload and prev_tid.
C33_Witness ==
    /\ returned.call = "replace_temp"
    /\ LET s == returned.args[1]
           e == returned.args[2][1]
           temp == temp_store[s]
       IN  /\ Len(temp) = 2
           /\ temp[2].zoid = e[2]
           /\ temp[2].state = e[1]
           /\ temp[2].prev_tid = e[3]
           /\ temp[1].state # e[1]
           /\ temp[1].prev_tid # e[3]

\* C34: a call of store_temp, store_temps or replace_temp by a session
\* changes the temp_store of that session only: the committed tables,
\* what the transactions have written, the temporary blob chunks and the
\* staged rows of every other session are as before; and the rows it
\* leaves are those its own rows and its arguments give, whatever the
\* other sessions have staged.
C34_StagingIsSessionPrivate ==
    [][returned' # returned =>
          LET s == returned'.args[1]
          IN  /\ \A t \in Sessions \ {s} :
                    temp_store'[t] = temp_store[t] /\ pc'[t] = pc[t]
              /\ UNCHANGED <<object_state, current_object, blob_chunk, txn,
                             temp_blob_chunk>>
              /\ returned'.call = "store_temp" =>
                    temp_store'[s] =
                        _generic_store_temp(temp_store[s], returned'.args[2][1][2],
                                            returned'.args[2][1][3],
                                            returned'.args[2][1][1])
              /\ returned'.call = "replace_temp" =>
                    temp_store'[s] =
                        replace_temp_rows(temp_store[s], returned'.args[2][1][2],
                                          returned'.args[2][1][3],
                                          returned'.args[2][1][1])]_vars

\* Both sessions have staged the same object, with different payloads.
C34_Witness ==
    \E s, t \in Sessions :
        /\ s # t
        /\ returned.args # <<>>
        /\ returned.args[1] = t
        /\ \E i \in DOMAIN temp_store[s], j \in DOMAIN temp_store[t] :
              /\ temp_store[s][i].zoid = temp_store[t][j].zoid
              /\ temp_store[s][i].state # temp_store[t][j].state
(***************************************************************************)
(* Store sessions from their opening on.  A store connection is opened     *)
(* once (on_store_opened with restart false) and may be restarted between  *)
(* transactions (restart true); its transactions stage rows, lock them and *)
(* ask for the commit lock, blocking or nowait, on either kind of          *)
(* database.                                                               *)
(***************************************************************************)
\* The row lock timeout of a connection nothing was installed on: the
\* default of the server, which waits.
NoTimeout == 0 - 1

\* A faulty on_store_opened that ignores restart.
on_store_opened_installs_always(restart) == TRUE

\* on_store_opened: if not restart
on_store_opened_installs(restart) == ~restart

\* _on_store_opened_set_row_lock_timeout(cursor): "Install a per-session
\* row lock timeout.  This should be set to the commit_lock_timeout."
_on_store_opened_set_row_lock_timeout(timeout) == commit_lock_timeout

\* on_store_opened(cursor, restart), called with restart false when the
\* store connection is opened and with restart true when it is restarted
\* between two transactions.
on_store_opened(s, restart) ==
    /\ pc[s] = IF restart THEN "idle" ELSE "closed"
    /\ IF on_store_opened_installs(restart)
       THEN /\ row_lock_timeout' = [row_lock_timeout EXCEPT
                    ![s] = _on_store_opened_set_row_lock_timeout(@)]
            /\ timeout_installs' = [timeout_installs EXCEPT ![s] = @ + 1]
       ELSE UNCHANGED <<row_lock_timeout, timeout_installs>>
    /\ pc' = [pc EXCEPT ![s] = "idle"]
    /\ returned' = [call |-> "on_store_opened", args |-> <<s, restart>>,
                    raised |-> FALSE, result |-> None, statements |-> 0,
                    n |-> 0]
    /\ UNCHANGED <<config_vars, env_vars, db_vars, ghost_vars, txn, temp_store,
                   temp_blob_chunk, row_lock, commit_row_lock, lock_queue,
                   conflicts, tid, lock_call, lock_result, validated, restored>>

InitOpen ==
    /\ keep_history \in BOOLEAN
    /\ mover = "abstract"
    /\ supports_row_lock_nowait \in BOOLEAN
    /\ InitDatabase
    /\ txn = [s \in Sessions |-> NoTxn]
    /\ temp_store = [s \in Sessions |-> <<>>]
    /\ temp_blob_chunk = [s \in Sessions |-> {}]
    /\ row_lock_timeout = [s \in Sessions |-> NoTimeout]
    /\ timeout_installs = [s \in Sessions |-> 0]
    /\ pc = [s \in Sessions |-> "closed"]
    /\ lock_queue = [s \in Sessions |-> <<>>]
    /\ conflicts = [s \in Sessions |-> <<>>]
    /\ tid = [s \in Sessions |-> 0]
    /\ lock_call = [s \in Sessions |-> [nowait |-> FALSE, lock_stmt |-> ""]]
    /\ lock_result = [s \in Sessions |-> NoResult]
    /\ validated = [s \in Sessions |-> [z \in Oids |-> 0]]
    /\ restored = [s \in Sessions |-> {}]
    /\ InitGhosts
    /\ InitEnv

NextOpen ==
    \E s \in Sessions :
        \/ \E restart \in BOOLEAN : on_store_opened(s, restart)
        \/ CallerStores(s)
        \/ \E current_oids \in SUBSET Oids : lock_current_objects(s, current_oids)
        \/ CallsHoldCommitLock(s)
        \/ CommitLockGranted(s)
        \/ CommitLockRefused(s)
        \/ Rollback(s)

SpecOpen == InitOpen /\ [][NextOpen]_vars

\* C35: _on_store_opened_set_row_lock_timeout is called once per store
\* session: the step that opens the connection (on_store_opened with
\* restart false) calls it once and installs commit_lock_timeout; no other
\* step of the session (on_store_opened with restart true,
\* lock_current_objects, staging, hold_commit_lock, the end of a
\* transaction) calls it, so an open session has had exactly one call.
C35_RowLockTimeoutInstalledOncePerSession ==
    [][\A s \in Sessions :
          /\ (pc[s] = "closed" /\ pc'[s] # "closed")
                => /\ timeout_installs'[s] = timeout_installs[s] + 1
                   /\ row_lock_timeout'[s] = commit_lock_timeout
          /\ ~(pc[s] = "closed" /\ pc'[s] # "closed")
                => timeout_installs'[s] = timeout_installs[s]
          /\ timeout_installs'[s] = IF pc'[s] = "closed" THEN 0 ELSE 1]_vars

\* A session that was restarted and has then run lock_current_objects in
\* a further transaction, with its one installation.
C35_Witness ==
    \E s \in Sessions :
        /\ returned.call = "on_store_opened"
        /\ returned.args = <<s, TRUE>>
        /\ pc[s] = "rows_locked"
        /\ timeout_installs[s] = 1

(***************************************************************************)
(* The COPY buffer alone: a TempStoreCopyBuffer over any elements, with    *)
(* and without a digester, read by any calls of read (psycopg2) and of     *)
(* readinto (pg8000) until it is exhausted and beyond.                     *)
(***************************************************************************)
\* The calls made on one buffer
MaxReads == 5

\* The elements (data, oid_int, tid_int) of state_oid_tid_iterable
CopyElements == {"", "A", "BB"} \X Oids \X {0, 1}

CopyIters == UNION {[1..k -> CopyElements] : k \in 0..2}

\* The size argument of read (-1 is its default), and the length of the
\* buffer a caller passes to readinto
ReadSizes == {0 - 1, 1, BufferLen + 1, 3 * BufferLen}

InitBuffer ==
    /\ keep_history \in BOOLEAN
    /\ mover = "postgresql"
    /\ supports_row_lock_nowait = TRUE
    /\ InitDatabase
    /\ InitSessions
    /\ InitGhosts
    /\ inst_dict = InstDict(_commit_lock_queries, "", FALSE)
    /\ lobject = <<>>
    /\ files = InitFiles
    /\ \E state_oid_tid_iter \in CopyIters :
          copy_buffer = TempStoreCopyBuffer(state_oid_tid_iter, keep_history)
    /\ copy_stream = <<>>
    /\ returned = NoCall

\* buf.read(size)
CallRead ==
    /\ returned.n < MaxReads
    /\ \E size \in ReadSizes :
          LET r == read(copy_buffer, size)
          IN  /\ copy_buffer' = r.self
              /\ copy_stream' = copy_stream \o r.result
              /\ returned' = [call |-> "read", args |-> <<>>, raised |-> FALSE,
                              result |-> r.result, statements |-> 0,
                              n |-> returned.n + 1]
    /\ UNCHANGED <<config_vars, db_vars, ghost_vars, inst_dict, lobject, files,
                   txn, temp_store, temp_blob_chunk, row_lock, commit_row_lock,
                   row_lock_timeout, timeout_installs, pc, lock_queue,
                   conflicts, tid, lock_call, lock_result, validated, restored>>

\* buf.readinto(b), b a bytearray that is not empty
CallReadinto ==
    /\ returned.n < MaxReads
    /\ \E len \in ReadSizes \cap (1..(3 * BufferLen)) :
          LET r == readinto(copy_buffer, [i \in 1..len |-> 0])
          IN  /\ copy_buffer' = r.self
              /\ copy_stream' = copy_stream \o SubSeq(r.buf, 1, r.count)
              /\ returned' = [call |-> "readinto", args |-> <<>>,
                              raised |-> FALSE,
                              result |-> SubSeq(r.buf, 1, r.count),
                              statements |-> 0, n |-> returned.n + 1]
    /\ UNCHANGED <<config_vars, db_vars, ghost_vars, inst_dict, lobject, files,
                   txn, temp_store, temp_blob_chunk, row_lock, commit_row_lock,
                   row_lock_timeout, timeout_installs, pc, lock_queue,
                   conflicts, tid, lock_call, lock_result, validated, restored>>

NextBuffer == CallRead \/ CallReadinto

SpecBuffer == InitBuffer /\ [][NextBuffer]_vars

InitCurrent ==
    /\ keep_history \in BOOLEAN
    /\ mover \in {"abstract", "postgresql"}
    /\ supports_row_lock_nowait = TRUE
    /\ InitSessions
    /\ InitGhosts
    /\ InitEnv
    /\ \E cur \in [Oids -> 0..(MaxTid - 1)] :
          /\ object_state =
                {IF keep_history
                 THEN [zoid |-> z, tid |-> cur[z], prev_tid |-> 0,
                       md5 |-> md5("A"), state_size |-> Length("A"),
                       state |-> "A"]
                 ELSE [zoid |-> z, tid |-> cur[z], state_size |-> Length("A"),
                       state |-> "A"] : z \in {z \in Oids : cur[z] # 0}}
          /\ current_object = IF keep_history THEN cur ELSE [z \in Oids |-> 0]
    /\ blob_chunk = {}
    /\ transaction_tid = MaxTid - 1
    /\ row_lock = [z \in Oids |-> NoSession]
    /\ commit_row_lock = NoSession

NextCurrent ==
    \E s \in Sessions :
        \/ UncheckedStores(s)
        \/ lock_current_objects(s, {})
        \/ LockRow(s)
        \/ DetectConflict(s)
        \/ Rollback(s)

SpecCurrent == InitCurrent /\ [][NextCurrent]_vars

\* C37: the rows detect_conflict returned to a session are rows of objects
\* it staged that have a current row (a current_object row when history
\* is kept, an object_state row when not); a staged object without one is
\* not among them, whatever its prev_tid, and a session that staged only
\* such objects passes.
C37_DetectConflictSkipsObjectsWithoutCurrentRow ==
    \A s \in Sessions :
        pc[s] \in {"validated", "conflict"} =>
            LET exists(z) == IF keep_history
                             THEN current_object[z] # 0
                             ELSE \E r \in object_state : r.zoid = z
                staged == {temp_store[s][i].zoid : i \in DOMAIN temp_store[s]}
                reported == {conflicts[s][i][1] : i \in DOMAIN conflicts[s]}
            IN  /\ reported \subseteq {z \in staged : exists(z)}
                /\ (\A z \in staged : ~exists(z)) => pc[s] = "validated"
                /\ pc[s] = "conflict" <=> reported # {}

\* Two sessions have staged the same object, which has no current row,
\* one of them with a prev_tid other than 0, and both have passed conflict
\* detection.
C37_Witness ==
    \E s, t \in Sessions, z \in Oids :
        /\ s # t
        /\ pc[s] = "validated" /\ pc[t] = "validated"
        /\ ~HasCurrentRow(object_state, current_object, z)
        /\ \E i \in DOMAIN temp_store[s] :
              temp_store[s][i].zoid = z /\ temp_store[s][i].prev_tid # 0
        /\ \E i \in DOMAIN temp_store[t] : temp_store[t][i].zoid = z

(***************************************************************************)
(* C38.  hold_commit_lock and the row of commit_row_lock (SpecLock).       *)
(***************************************************************************)
\* C38: hold_commit_lock has returned True only when its statement ended
\* without an exception and returned the row of commit_row_lock, which the
\* session then has locked; when the statement returned no row the call
\* has raised UnableToAcquireCommitLockError with the message "No row
\* returned from commit_row_lock", blocking or nowait, and has returned
\* neither False nor True.
C38_TrueOnlyWithTheRow ==
    \A s \in Sessions :
        /\ lock_result[s].result = "True"
              => (lock_result[s].outcome = "rows" /\ commit_row_lock = s)
        /\ lock_result[s].outcome = "no rows"
              => /\ lock_result[s].result = "UnableToAcquireCommitLockError"
                 /\ lock_result[s].message
                        = <<"No row returned from commit_row_lock">>
                 /\ pc[s] = "failed"
                 /\ commit_row_lock # s

\* The statement of a nowait call and that of a blocking call have both
\* returned no row, and both calls have raised.
C38_Witness ==
    \E s, t \in Sessions :
        /\ lock_call[s].nowait
        /\ ~lock_call[t].nowait
        /\ lock_result[s].outcome = "no rows"
        /\ lock_result[t].outcome = "no rows"
        /\ lock_result[s].result = "UnableToAcquireCommitLockError"
        /\ lock_result[t].result = "UnableToAcquireCommitLockError"

C40_FinalizationOnlyReadsTempStore ==
    [][\A s \in Sessions :
          /\ (pc[s] = "tid_assigned" /\ pc'[s] \in {"moved", "failed"})
                => temp_store'[s] = temp_store[s]
          /\ (pc[s] = "moved" /\ pc'[s] \in {"finalized", "failed"})
                => temp_store'[s] = temp_store[s]
          /\ (/\ pc[s] \in {"tid_assigned", "moved", "finalized"}
              /\ temp_store'[s] # temp_store[s])
                => (pc'[s] = "idle" /\ temp_store'[s] = <<>>)]_vars

\* Two staged rows have been finalized, their states are in object_state
\* under the tid, and both are still in temp_store.
C40_Witness ==
    \E s \in Sessions :
        /\ pc[s] = "finalized"
        /\ Len(temp_store[s]) = 2
        /\ \A i \in DOMAIN temp_store[s] :
              \E r \in txn[s].object_state :
                  /\ r.zoid = temp_store[s][i].zoid
                  /\ r.tid = tid[s]
                  /\ r.state = temp_store[s][i].state

=============================================================================
